---- MODULE Spec2Model ----
(***************************************************************************)
(* Model of the opencode-model-router plugin (src/src/index.ts, the        *)
(* second, current version of the file: lines 331-993).                    *)
(*                                                                         *)
(* State: the configuration document tiers.json on disk, the override      *)
(* file opencode-model-router.state.json on disk, the module-level cache   *)
(* (_cachedConfig, _configDirty), the plugin closure's cfg, and the result *)
(* of the last host-facing operation.                                      *)
(*                                                                         *)
(* Strings are sequences of one-character strings, so that trim() and      *)
(* toLowerCase() are computed.  A JavaScript object is a sequence of       *)
(* [k, v] entries in enumeration order.                                    *)
(***************************************************************************)
EXTENDS Naturals, Sequences, FiniteSets

VARIABLES
    doc,            \* tiers.json as it is on disk (decoded, with type tags)
    docAuthored,    \* ghost: tiers.json as its author last wrote it
    stateFile,      \* the override file on disk
    _cachedConfig,  \* index.ts:396
    _configDirty,   \* index.ts:397
    cfg,            \* index.ts:872, the plugin closure's cfg
    activeTiers,    \* index.ts:873, the plugin closure's activeTiers
    out,            \* what the last host-facing operation gave the host
    edited,         \* ghost: tiers.json was edited since that operation
    writers         \* other processes in the middle of writeState (557-562)

vars == <<doc, docAuthored, stateFile, _cachedConfig, _configDirty, cfg,
          activeTiers, out, edited, writers>>

-----------------------------------------------------------------------------
\* Strings

Undefined == <<"undefined">>

\* Characters.  A character is a one-character string.  A TLA+ string literal
\* holds U+0001-U+00FF but the backquote, and of the rest of Unicode the
\* characters of the Basic Multilingual Plane whose code point ends in a byte
\* of 0x80-0xFF (U+0181, U+03A9, U+1680, U+FEFF, ...).  No other character
\* can be given to the model.  One that toLowerCase returns is named by its
\* code point, as in "U+0253".

\* The characters String.prototype.toLowerCase changes (Unicode 17 default
\* case conversion, locale-independent), each with its lower case at the
\* same index of LowerAlpha.  U+0130, the one character whose lower case is
\* two characters, is not among those a literal holds.
UpperAlpha ==
  <<
    "A","B","C","D","E","F","G","H","I","J","K","L",
    "M","N","O","P","Q","R","S","T","U","V","W","X",
    "Y","Z","À","Á","Â","Ã","Ä","Å","Æ","Ç","È","É",
    "Ê","Ë","Ì","Í","Î","Ï","Ð","Ñ","Ò","Ó","Ô","Õ",
    "Ö","Ø","Ù","Ú","Û","Ü","Ý","Þ","Ɓ","Ƃ","Ƅ","Ɔ",
    "Ƈ","Ɖ","Ɗ","Ƌ","Ǝ","Ə","Ɛ","Ƒ","Ɠ","Ɣ","Ɩ","Ɨ",
    "Ƙ","Ɯ","Ɲ","Ɵ","Ơ","Ƣ","Ƥ","Ʀ","Ƨ","Ʃ","Ƭ","Ʈ",
    "Ư","Ʊ","Ʋ","Ƴ","Ƶ","Ʒ","Ƹ","Ƽ","Ǆ","ǅ","Ǉ","ǈ",
    "Ǌ","ǋ","Ǎ","Ǐ","Ǒ","Ǔ","Ǖ","Ǘ","Ǚ","Ǜ","Ǟ","Ǡ",
    "Ǣ","Ǥ","Ǧ","Ǩ","Ǫ","Ǭ","Ǯ","Ǳ","ǲ","Ǵ","Ƕ","Ƿ",
    "Ǹ","Ǻ","Ǽ","Ǿ","Ά","Έ","Ή","Ί","Ό","Ύ","Ώ","Α",
    "Β","Γ","Δ","Ε","Ζ","Η","Θ","Ι","Κ","Λ","Μ","Ν",
    "Ξ","Ο","Π","Ρ","Σ","Τ","Υ","Φ","Χ","Ψ","Ω","Ϊ",
    "Ϋ","Ϗ","Ϙ","Ϛ","Ϝ","Ϟ","Ϡ","Ϣ","Ϥ","Ϧ","Ϩ","Ϫ",
    "Ϭ","Ϯ","ϴ","Ϸ","Ϲ","Ϻ","Ͻ","Ͼ","Ͽ","Ҁ","Ҋ","Ҍ",
    "Ҏ","Ґ","Ғ","Ҕ","Җ","Ҙ","Қ","Ҝ","Ҟ","Ҡ","Ң","Ҥ",
    "Ҧ","Ҩ","Ҫ","Ҭ","Ү","Ұ","Ҳ","Ҵ","Ҷ","Ҹ","Һ","Ҽ",
    "Ҿ","Ӏ","Ӂ","Ӄ","Ӆ","Ӈ","Ӊ","Ӌ","Ӎ","Ӑ","Ӓ","Ӕ",
    "Ӗ","Ә","Ӛ","Ӝ","Ӟ","Ӡ","Ӣ","Ӥ","Ӧ","Ө","Ӫ","Ӭ",
    "Ӯ","Ӱ","Ӳ","Ӵ","Ӷ","Ӹ","Ӻ","Ӽ","Ӿ","Ⴀ","Ⴁ","Ⴂ",
    "Ⴃ","Ⴄ","Ⴅ","Ⴆ","Ⴇ","Ⴈ","Ⴉ","Ⴊ","Ⴋ","Ⴌ","Ⴍ","Ⴎ",
    "Ⴏ","Ⴐ","Ⴑ","Ⴒ","Ⴓ","Ⴔ","Ⴕ","Ⴖ","Ⴗ","Ⴘ","Ⴙ","Ⴚ",
    "Ⴛ","Ⴜ","Ⴝ","Ⴞ","Ⴟ","Ⴠ","Ⴡ","Ⴢ","Ⴣ","Ⴤ","Ⴥ","Ⴧ",
    "Ⴭ","Ꭰ","Ꭱ","Ꭲ","Ꭳ","Ꭴ","Ꭵ","Ꭶ","Ꭷ","Ꭸ","Ꭹ","Ꭺ",
    "Ꭻ","Ꭼ","Ꭽ","Ꭾ","Ꭿ","Ꮀ","Ꮁ","Ꮂ","Ꮃ","Ꮄ","Ꮅ","Ꮆ",
    "Ꮇ","Ꮈ","Ꮉ","Ꮊ","Ꮋ","Ꮌ","Ꮍ","Ꮎ","Ꮏ","Ꮐ","Ꮑ","Ꮒ",
    "Ꮓ","Ꮔ","Ꮕ","Ꮖ","Ꮗ","Ꮘ","Ꮙ","Ꮚ","Ꮛ","Ꮜ","Ꮝ","Ꮞ",
    "Ꮟ","Ꮠ","Ꮡ","Ꮢ","Ꮣ","Ꮤ","Ꮥ","Ꮦ","Ꮧ","Ꮨ","Ꮩ","Ꮪ",
    "Ꮫ","Ꮬ","Ꮭ","Ꮮ","Ꮯ","Ꮰ","Ꮱ","Ꮲ","Ꮳ","Ꮴ","Ꮵ","Ꮶ",
    "Ꮷ","Ꮸ","Ꮹ","Ꮺ","Ꮻ","Ꮼ","Ꮽ","Ꮾ","Ꮿ","Ᏸ","Ᏹ","Ᏺ",
    "Ᏻ","Ᏼ","Ᏽ","Ᲊ","Ა","Ბ","Გ","Დ","Ე","Ვ","Ზ","Თ",
    "Ი","Კ","Ლ","Მ","Ნ","Ო","Პ","Ჟ","Რ","Ს","Ტ","Უ",
    "Ფ","Ქ","Ღ","Ყ","Შ","Ჩ","Ც","Ძ","Წ","Ჭ","Ხ","Ჯ",
    "Ჰ","Ჱ","Ჲ","Ჳ","Ჴ","Ჵ","Ჶ","Ჷ","Ჸ","Ჹ","Ჺ","Ჽ",
    "Ჾ","Ჿ","Ẁ","Ẃ","Ẅ","Ẇ","Ẉ","Ẋ","Ẍ","Ẏ","Ẑ","Ẓ",
    "Ẕ","ẞ","Ạ","Ả","Ấ","Ầ","Ẩ","Ẫ","Ậ","Ắ","Ằ","Ẳ",
    "Ẵ","Ặ","Ẹ","Ẻ","Ẽ","Ế","Ề","Ể","Ễ","Ệ","Ỉ","Ị",
    "Ọ","Ỏ","Ố","Ồ","Ổ","Ỗ","Ộ","Ớ","Ờ","Ở","Ỡ","Ợ",
    "Ụ","Ủ","Ứ","Ừ","Ử","Ữ","Ự","Ỳ","Ỵ","Ỷ","Ỹ","Ỻ",
    "Ỽ","Ỿ","ᾈ","ᾉ","ᾊ","ᾋ","ᾌ","ᾍ","ᾎ","ᾏ","ᾘ","ᾙ",
    "ᾚ","ᾛ","ᾜ","ᾝ","ᾞ","ᾟ","ᾨ","ᾩ","ᾪ","ᾫ","ᾬ","ᾭ",
    "ᾮ","ᾯ","Ᾰ","Ᾱ","Ὰ","Ά","ᾼ","Ὲ","Έ","Ὴ","Ή","ῌ",
    "Ῐ","Ῑ","Ὶ","Ί","Ῠ","Ῡ","Ὺ","Ύ","Ῥ","Ὸ","Ό","Ὼ",
    "Ώ","ῼ","Ↄ","Ⓐ","Ⓑ","Ⓒ","Ⓓ","Ⓔ","Ⓕ","Ⓖ","Ⓗ","Ⓘ",
    "Ⓙ","Ⓚ","Ⓛ","Ⓜ","Ⓝ","Ⓞ","Ⓟ","Ⓠ","Ⓡ","Ⓢ","Ⓣ","Ⓤ",
    "Ⓥ","Ⓦ","Ⓧ","Ⓨ","Ⓩ","Ⲁ","Ⲃ","Ⲅ","Ⲇ","Ⲉ","Ⲋ","Ⲍ",
    "Ⲏ","Ⲑ","Ⲓ","Ⲕ","Ⲗ","Ⲙ","Ⲛ","Ⲝ","Ⲟ","Ⲡ","Ⲣ","Ⲥ",
    "Ⲧ","Ⲩ","Ⲫ","Ⲭ","Ⲯ","Ⲱ","Ⲳ","Ⲵ","Ⲷ","Ⲹ","Ⲻ","Ⲽ",
    "Ⲿ","Ⳁ","Ⳃ","Ⳅ","Ⳇ","Ⳉ","Ⳋ","Ⳍ","Ⳏ","Ⳑ","Ⳓ","Ⳕ",
    "Ⳗ","Ⳙ","Ⳛ","Ⳝ","Ⳟ","Ⳡ","Ⳣ","Ⳬ","Ⳮ","Ⳳ","Ꚁ","Ꚃ",
    "Ꚅ","Ꚇ","Ꚉ","Ꚋ","Ꚍ","Ꚏ","Ꚑ","Ꚓ","Ꚕ","Ꚗ","Ꚙ","Ꚛ",
    "Ꞁ","Ꞃ","Ꞅ","Ꞇ","Ꞌ","Ɥ","Ꞑ","Ꞓ","Ꞗ","Ꞙ","Ꞛ","Ꞝ",
    "Ꞟ","Ꞡ","Ꞣ","Ꞥ","Ꞧ","Ꞩ","Ɦ","Ɜ","Ɡ","Ɬ","Ɪ","Ʞ",
    "Ʇ","Ʝ","Ꭓ","Ꞵ","Ꞷ","Ꞹ","Ꞻ","Ꞽ","Ꞿ","Ꟁ","Ꟃ","Ꞔ",
    "Ʂ","Ᶎ","Ꟈ","Ꟊ","Ɤ","Ꟍ","꟎","Ꟑ","꟒","꟔","Ꟗ","Ꟙ",
    "Ꟛ","Ƛ","Ꟶ"
  >>

LowerAlpha ==
  <<
    "a","b","c","d","e","f","g","h","i","j","k","l",
    "m","n","o","p","q","r","s","t","u","v","w","x",
    "y","z","à","á","â","ã","ä","å","æ","ç","è","é",
    "ê","ë","ì","í","î","ï","ð","ñ","ò","ó","ô","õ",
    "ö","ø","ù","ú","û","ü","ý","þ","U+0253","ƃ","ƅ","U+0254",
    "ƈ","U+0256","U+0257","ƌ","ǝ","U+0259","U+025B","ƒ","U+0260","U+0263","U+0269","U+0268",
    "ƙ","U+026F","U+0272","U+0275","ơ","ƣ","ƥ","ʀ","ƨ","ʃ","ƭ","ʈ",
    "ư","ʊ","ʋ","ƴ","ƶ","ʒ","ƹ","ƽ","ǆ","ǆ","ǉ","ǉ",
    "ǌ","ǌ","ǎ","ǐ","ǒ","ǔ","ǖ","ǘ","ǚ","ǜ","ǟ","ǡ",
    "ǣ","ǥ","ǧ","ǩ","ǫ","ǭ","ǯ","ǳ","ǳ","ǵ","ƕ","ƿ",
    "ǹ","ǻ","ǽ","ǿ","ά","έ","ή","ί","ό","ύ","ώ","α",
    "β","γ","δ","ε","ζ","η","θ","ι","κ","λ","μ","ν",
    "ξ","ο","π","ρ","σ","τ","υ","φ","χ","ψ","ω","ϊ",
    "ϋ","ϗ","ϙ","ϛ","ϝ","ϟ","ϡ","ϣ","ϥ","ϧ","ϩ","ϫ",
    "ϭ","ϯ","θ","ϸ","ϲ","ϻ","U+037B","U+037C","U+037D","ҁ","ҋ","ҍ",
    "ҏ","ґ","ғ","ҕ","җ","ҙ","қ","ҝ","ҟ","ҡ","ң","ҥ",
    "ҧ","ҩ","ҫ","ҭ","ү","ұ","ҳ","ҵ","ҷ","ҹ","һ","ҽ",
    "ҿ","ӏ","ӂ","ӄ","ӆ","ӈ","ӊ","ӌ","ӎ","ӑ","ӓ","ӕ",
    "ӗ","ә","ӛ","ӝ","ӟ","ӡ","ӣ","ӥ","ӧ","ө","ӫ","ӭ",
    "ӯ","ӱ","ӳ","ӵ","ӷ","ӹ","ӻ","ӽ","ӿ","U+2D00","U+2D01","U+2D02",
    "U+2D03","U+2D04","U+2D05","U+2D06","U+2D07","U+2D08","U+2D09","U+2D0A","U+2D0B","U+2D0C","U+2D0D","U+2D0E",
    "U+2D0F","U+2D10","U+2D11","U+2D12","U+2D13","U+2D14","U+2D15","U+2D16","U+2D17","U+2D18","U+2D19","U+2D1A",
    "U+2D1B","U+2D1C","U+2D1D","U+2D1E","U+2D1F","U+2D20","U+2D21","U+2D22","U+2D23","U+2D24","U+2D25","U+2D27",
    "U+2D2D","U+AB70","U+AB71","U+AB72","U+AB73","U+AB74","U+AB75","U+AB76","U+AB77","U+AB78","U+AB79","U+AB7A",
    "U+AB7B","U+AB7C","U+AB7D","U+AB7E","U+AB7F","ꮀ","ꮁ","ꮂ","ꮃ","ꮄ","ꮅ","ꮆ",
    "ꮇ","ꮈ","ꮉ","ꮊ","ꮋ","ꮌ","ꮍ","ꮎ","ꮏ","ꮐ","ꮑ","ꮒ",
    "ꮓ","ꮔ","ꮕ","ꮖ","ꮗ","ꮘ","ꮙ","ꮚ","ꮛ","ꮜ","ꮝ","ꮞ",
    "ꮟ","ꮠ","ꮡ","ꮢ","ꮣ","ꮤ","ꮥ","ꮦ","ꮧ","ꮨ","ꮩ","ꮪ",
    "ꮫ","ꮬ","ꮭ","ꮮ","ꮯ","ꮰ","ꮱ","ꮲ","ꮳ","ꮴ","ꮵ","ꮶ",
    "ꮷ","ꮸ","ꮹ","ꮺ","ꮻ","ꮼ","ꮽ","ꮾ","ꮿ","ᏸ","ᏹ","ᏺ",
    "ᏻ","ᏼ","ᏽ","ᲊ","ა","ბ","გ","დ","ე","ვ","ზ","თ",
    "ი","კ","ლ","მ","ნ","ო","პ","ჟ","რ","ს","ტ","უ",
    "ფ","ქ","ღ","ყ","შ","ჩ","ც","ძ","წ","ჭ","ხ","ჯ",
    "ჰ","ჱ","ჲ","ჳ","ჴ","ჵ","ჶ","ჷ","ჸ","ჹ","ჺ","ჽ",
    "ჾ","ჿ","ẁ","ẃ","ẅ","ẇ","ẉ","ẋ","ẍ","ẏ","ẑ","ẓ",
    "ẕ","ß","ạ","ả","ấ","ầ","ẩ","ẫ","ậ","ắ","ằ","ẳ",
    "ẵ","ặ","ẹ","ẻ","ẽ","ế","ề","ể","ễ","ệ","ỉ","ị",
    "ọ","ỏ","ố","ồ","ổ","ỗ","ộ","ớ","ờ","ở","ỡ","ợ",
    "ụ","ủ","ứ","ừ","ử","ữ","ự","ỳ","ỵ","ỷ","ỹ","ỻ",
    "ỽ","ỿ","ᾀ","ᾁ","ᾂ","ᾃ","ᾄ","ᾅ","ᾆ","ᾇ","ᾐ","ᾑ",
    "ᾒ","ᾓ","ᾔ","ᾕ","ᾖ","ᾗ","ᾠ","ᾡ","ᾢ","ᾣ","ᾤ","ᾥ",
    "ᾦ","ᾧ","ᾰ","ᾱ","U+1F70","U+1F71","ᾳ","U+1F72","U+1F73","U+1F74","U+1F75","ῃ",
    "ῐ","ῑ","U+1F76","U+1F77","ῠ","ῡ","U+1F7A","U+1F7B","ῥ","U+1F78","U+1F79","U+1F7C",
    "U+1F7D","ῳ","ↄ","ⓐ","ⓑ","ⓒ","ⓓ","ⓔ","ⓕ","ⓖ","ⓗ","ⓘ",
    "ⓙ","ⓚ","ⓛ","ⓜ","ⓝ","ⓞ","ⓟ","ⓠ","ⓡ","ⓢ","ⓣ","ⓤ",
    "ⓥ","ⓦ","ⓧ","ⓨ","ⓩ","ⲁ","ⲃ","ⲅ","ⲇ","ⲉ","ⲋ","ⲍ",
    "ⲏ","ⲑ","ⲓ","ⲕ","ⲗ","ⲙ","ⲛ","ⲝ","ⲟ","ⲡ","ⲣ","ⲥ",
    "ⲧ","ⲩ","ⲫ","ⲭ","ⲯ","ⲱ","ⲳ","ⲵ","ⲷ","ⲹ","ⲻ","ⲽ",
    "ⲿ","ⳁ","ⳃ","ⳅ","ⳇ","ⳉ","ⳋ","ⳍ","ⳏ","ⳑ","ⳓ","ⳕ",
    "ⳗ","ⳙ","ⳛ","ⳝ","ⳟ","ⳡ","ⳣ","ⳬ","ⳮ","ⳳ","ꚁ","ꚃ",
    "ꚅ","ꚇ","ꚉ","ꚋ","ꚍ","ꚏ","ꚑ","ꚓ","ꚕ","ꚗ","ꚙ","ꚛ",
    "ꞁ","ꞃ","ꞅ","ꞇ","ꞌ","U+0265","ꞑ","ꞓ","ꞗ","ꞙ","ꞛ","ꞝ",
    "ꞟ","ꞡ","ꞣ","ꞥ","ꞧ","ꞩ","U+0266","U+025C","U+0261","U+026C","U+026A","ʞ",
    "ʇ","ʝ","U+AB53","ꞵ","ꞷ","ꞹ","ꞻ","ꞽ","ꞿ","ꟁ","ꟃ","ꞔ",
    "ʂ","ᶎ","ꟈ","ꟊ","U+0264","ꟍ","꟏","ꟑ","ꟓ","ꟕ","ꟗ","ꟙ",
    "ꟛ","ƛ","ꟶ"
  >>

Capitals == {UpperAlpha[i] : i \in 1..Len(UpperAlpha)}

\* The characters with the Unicode property Cased.
Cased ==
  {
    "A","B","C","D","E","F","G","H","I","J","K","L",
    "M","N","O","P","Q","R","S","T","U","V","W","X",
    "Y","Z","a","b","c","d","e","f","g","h","i","j",
    "k","l","m","n","o","p","q","r","s","t","u","v",
    "w","x","y","z","ª","µ","º","À","Á","Â","Ã","Ä",
    "Å","Æ","Ç","È","É","Ê","Ë","Ì","Í","Î","Ï","Ð",
    "Ñ","Ò","Ó","Ô","Õ","Ö","Ø","Ù","Ú","Û","Ü","Ý",
    "Þ","ß","à","á","â","ã","ä","å","æ","ç","è","é",
    "ê","ë","ì","í","î","ï","ð","ñ","ò","ó","ô","õ",
    "ö","ø","ù","ú","û","ü","ý","þ","ÿ","ƀ","Ɓ","Ƃ",
    "ƃ","Ƅ","ƅ","Ɔ","Ƈ","ƈ","Ɖ","Ɗ","Ƌ","ƌ","ƍ","Ǝ",
    "Ə","Ɛ","Ƒ","ƒ","Ɠ","Ɣ","ƕ","Ɩ","Ɨ","Ƙ","ƙ","ƚ",
    "ƛ","Ɯ","Ɲ","ƞ","Ɵ","Ơ","ơ","Ƣ","ƣ","Ƥ","ƥ","Ʀ",
    "Ƨ","ƨ","Ʃ","ƪ","ƫ","Ƭ","ƭ","Ʈ","Ư","ư","Ʊ","Ʋ",
    "Ƴ","ƴ","Ƶ","ƶ","Ʒ","Ƹ","ƹ","ƺ","Ƽ","ƽ","ƾ","ƿ",
    "Ǆ","ǅ","ǆ","Ǉ","ǈ","ǉ","Ǌ","ǋ","ǌ","Ǎ","ǎ","Ǐ",
    "ǐ","Ǒ","ǒ","Ǔ","ǔ","Ǖ","ǖ","Ǘ","ǘ","Ǚ","ǚ","Ǜ",
    "ǜ","ǝ","Ǟ","ǟ","Ǡ","ǡ","Ǣ","ǣ","Ǥ","ǥ","Ǧ","ǧ",
    "Ǩ","ǩ","Ǫ","ǫ","Ǭ","ǭ","Ǯ","ǯ","ǰ","Ǳ","ǲ","ǳ",
    "Ǵ","ǵ","Ƕ","Ƿ","Ǹ","ǹ","Ǻ","ǻ","Ǽ","ǽ","Ǿ","ǿ",
    "ʀ","ʁ","ʂ","ʃ","ʄ","ʅ","ʆ","ʇ","ʈ","ʉ","ʊ","ʋ",
    "ʌ","ʍ","ʎ","ʏ","ʐ","ʑ","ʒ","ʓ","ʖ","ʗ","ʘ","ʙ",
    "ʚ","ʛ","ʜ","ʝ","ʞ","ʟ","ʠ","ʡ","ʢ","ʣ","ʤ","ʥ",
    "ʦ","ʧ","ʨ","ʩ","ʪ","ʫ","ʬ","ʭ","ʮ","ʯ","ʰ","ʱ",
    "ʲ","ʳ","ʴ","ʵ","ʶ","ʷ","ʸ","ˀ","ˁ","ˠ","ˡ","ˢ",
    "ˣ","ˤ","Ά","Έ","Ή","Ί","Ό","Ύ","Ώ","ΐ","Α","Β",
    "Γ","Δ","Ε","Ζ","Η","Θ","Ι","Κ","Λ","Μ","Ν","Ξ",
    "Ο","Π","Ρ","Σ","Τ","Υ","Φ","Χ","Ψ","Ω","Ϊ","Ϋ",
    "ά","έ","ή","ί","ΰ","α","β","γ","δ","ε","ζ","η",
    "θ","ι","κ","λ","μ","ν","ξ","ο","π","ρ","ς","σ",
    "τ","υ","φ","χ","ψ","ω","ϊ","ϋ","ό","ύ","ώ","Ϗ",
    "ϐ","ϑ","ϒ","ϓ","ϔ","ϕ","ϖ","ϗ","Ϙ","ϙ","Ϛ","ϛ",
    "Ϝ","ϝ","Ϟ","ϟ","Ϡ","ϡ","Ϣ","ϣ","Ϥ","ϥ","Ϧ","ϧ",
    "Ϩ","ϩ","Ϫ","ϫ","Ϭ","ϭ","Ϯ","ϯ","ϰ","ϱ","ϲ","ϳ",
    "ϴ","ϵ","Ϸ","ϸ","Ϲ","Ϻ","ϻ","ϼ","Ͻ","Ͼ","Ͽ","Ҁ",
    "ҁ","Ҋ","ҋ","Ҍ","ҍ","Ҏ","ҏ","Ґ","ґ","Ғ","ғ","Ҕ",
    "ҕ","Җ","җ","Ҙ","ҙ","Қ","қ","Ҝ","ҝ","Ҟ","ҟ","Ҡ",
    "ҡ","Ң","ң","Ҥ","ҥ","Ҧ","ҧ","Ҩ","ҩ","Ҫ","ҫ","Ҭ",
    "ҭ","Ү","ү","Ұ","ұ","Ҳ","ҳ","Ҵ","ҵ","Ҷ","ҷ","Ҹ",
    "ҹ","Һ","һ","Ҽ","ҽ","Ҿ","ҿ","Ӏ","Ӂ","ӂ","Ӄ","ӄ",
    "Ӆ","ӆ","Ӈ","ӈ","Ӊ","ӊ","Ӌ","ӌ","Ӎ","ӎ","ӏ","Ӑ",
    "ӑ","Ӓ","ӓ","Ӕ","ӕ","Ӗ","ӗ","Ә","ә","Ӛ","ӛ","Ӝ",
    "ӝ","Ӟ","ӟ","Ӡ","ӡ","Ӣ","ӣ","Ӥ","ӥ","Ӧ","ӧ","Ө",
    "ө","Ӫ","ӫ","Ӭ","ӭ","Ӯ","ӯ","Ӱ","ӱ","Ӳ","ӳ","Ӵ",
    "ӵ","Ӷ","ӷ","Ӹ","ӹ","Ӻ","ӻ","Ӽ","ӽ","Ӿ","ӿ","ր",
    "ց","ւ","փ","ք","օ","ֆ","և","ֈ","Ⴀ","Ⴁ","Ⴂ","Ⴃ",
    "Ⴄ","Ⴅ","Ⴆ","Ⴇ","Ⴈ","Ⴉ","Ⴊ","Ⴋ","Ⴌ","Ⴍ","Ⴎ","Ⴏ",
    "Ⴐ","Ⴑ","Ⴒ","Ⴓ","Ⴔ","Ⴕ","Ⴖ","Ⴗ","Ⴘ","Ⴙ","Ⴚ","Ⴛ",
    "Ⴜ","Ⴝ","Ⴞ","Ⴟ","Ⴠ","Ⴡ","Ⴢ","Ⴣ","Ⴤ","Ⴥ","Ⴧ","Ⴭ",
    "ა","ბ","გ","დ","ე","ვ","ზ","თ","ი","კ","ლ","მ",
    "ნ","ო","პ","ჟ","რ","ს","ტ","უ","ფ","ქ","ღ","ყ",
    "შ","ჩ","ც","ძ","წ","ჭ","ხ","ჯ","ჰ","ჱ","ჲ","ჳ",
    "ჴ","ჵ","ჶ","ჷ","ჸ","ჹ","ჺ","ჼ","ჽ","ჾ","ჿ","Ꭰ",
    "Ꭱ","Ꭲ","Ꭳ","Ꭴ","Ꭵ","Ꭶ","Ꭷ","Ꭸ","Ꭹ","Ꭺ","Ꭻ","Ꭼ",
    "Ꭽ","Ꭾ","Ꭿ","Ꮀ","Ꮁ","Ꮂ","Ꮃ","Ꮄ","Ꮅ","Ꮆ","Ꮇ","Ꮈ",
    "Ꮉ","Ꮊ","Ꮋ","Ꮌ","Ꮍ","Ꮎ","Ꮏ","Ꮐ","Ꮑ","Ꮒ","Ꮓ","Ꮔ",
    "Ꮕ","Ꮖ","Ꮗ","Ꮘ","Ꮙ","Ꮚ","Ꮛ","Ꮜ","Ꮝ","Ꮞ","Ꮟ","Ꮠ",
    "Ꮡ","Ꮢ","Ꮣ","Ꮤ","Ꮥ","Ꮦ","Ꮧ","Ꮨ","Ꮩ","Ꮪ","Ꮫ","Ꮬ",
    "Ꮭ","Ꮮ","Ꮯ","Ꮰ","Ꮱ","Ꮲ","Ꮳ","Ꮴ","Ꮵ","Ꮶ","Ꮷ","Ꮸ",
    "Ꮹ","Ꮺ","Ꮻ","Ꮼ","Ꮽ","Ꮾ","Ꮿ","Ᏸ","Ᏹ","Ᏺ","Ᏻ","Ᏼ",
    "Ᏽ","ᏸ","ᏹ","ᏺ","ᏻ","ᏼ","ᏽ","ᲀ","ᲁ","ᲂ","ᲃ","ᲄ",
    "ᲅ","ᲆ","ᲇ","ᲈ","Ᲊ","ᲊ","Ა","Ბ","Გ","Დ","Ე","Ვ",
    "Ზ","Თ","Ი","Კ","Ლ","Მ","Ნ","Ო","Პ","Ჟ","Რ","Ს",
    "Ტ","Უ","Ფ","Ქ","Ღ","Ყ","Შ","Ჩ","Ც","Ძ","Წ","Ჭ",
    "Ხ","Ჯ","Ჰ","Ჱ","Ჲ","Ჳ","Ჴ","Ჵ","Ჶ","Ჷ","Ჸ","Ჹ",
    "Ჺ","Ჽ","Ჾ","Ჿ","ᶀ","ᶁ","ᶂ","ᶃ","ᶄ","ᶅ","ᶆ","ᶇ",
    "ᶈ","ᶉ","ᶊ","ᶋ","ᶌ","ᶍ","ᶎ","ᶏ","ᶐ","ᶑ","ᶒ","ᶓ",
    "ᶔ","ᶕ","ᶖ","ᶗ","ᶘ","ᶙ","ᶚ","ᶛ","ᶜ","ᶝ","ᶞ","ᶟ",
    "ᶠ","ᶡ","ᶢ","ᶣ","ᶤ","ᶥ","ᶦ","ᶧ","ᶨ","ᶩ","ᶪ","ᶫ",
    "ᶬ","ᶭ","ᶮ","ᶯ","ᶰ","ᶱ","ᶲ","ᶳ","ᶴ","ᶵ","ᶶ","ᶷ",
    "ᶸ","ᶹ","ᶺ","ᶻ","ᶼ","ᶽ","ᶾ","ᶿ","Ẁ","ẁ","Ẃ","ẃ",
    "Ẅ","ẅ","Ẇ","ẇ","Ẉ","ẉ","Ẋ","ẋ","Ẍ","ẍ","Ẏ","ẏ",
    "Ẑ","ẑ","Ẓ","ẓ","Ẕ","ẕ","ẖ","ẗ","ẘ","ẙ","ẚ","ẛ",
    "ẜ","ẝ","ẞ","ẟ","Ạ","ạ","Ả","ả","Ấ","ấ","Ầ","ầ",
    "Ẩ","ẩ","Ẫ","ẫ","Ậ","ậ","Ắ","ắ","Ằ","ằ","Ẳ","ẳ",
    "Ẵ","ẵ","Ặ","ặ","Ẹ","ẹ","Ẻ","ẻ","Ẽ","ẽ","Ế","ế",
    "Ề","ề","Ể","ể","Ễ","ễ","Ệ","ệ","Ỉ","ỉ","Ị","ị",
    "Ọ","ọ","Ỏ","ỏ","Ố","ố","Ồ","ồ","Ổ","ổ","Ỗ","ỗ",
    "Ộ","ộ","Ớ","ớ","Ờ","ờ","Ở","ở","Ỡ","ỡ","Ợ","ợ",
    "Ụ","ụ","Ủ","ủ","Ứ","ứ","Ừ","ừ","Ử","ử","Ữ","ữ",
    "Ự","ự","Ỳ","ỳ","Ỵ","ỵ","Ỷ","ỷ","Ỹ","ỹ","Ỻ","ỻ",
    "Ỽ","ỽ","Ỿ","ỿ","ᾀ","ᾁ","ᾂ","ᾃ","ᾄ","ᾅ","ᾆ","ᾇ",
    "ᾈ","ᾉ","ᾊ","ᾋ","ᾌ","ᾍ","ᾎ","ᾏ","ᾐ","ᾑ","ᾒ","ᾓ",
    "ᾔ","ᾕ","ᾖ","ᾗ","ᾘ","ᾙ","ᾚ","ᾛ","ᾜ","ᾝ","ᾞ","ᾟ",
    "ᾠ","ᾡ","ᾢ","ᾣ","ᾤ","ᾥ","ᾦ","ᾧ","ᾨ","ᾩ","ᾪ","ᾫ",
    "ᾬ","ᾭ","ᾮ","ᾯ","ᾰ","ᾱ","ᾲ","ᾳ","ᾴ","ᾶ","ᾷ","Ᾰ",
    "Ᾱ","Ὰ","Ά","ᾼ","ι","ῂ","ῃ","ῄ","ῆ","ῇ","Ὲ","Έ",
    "Ὴ","Ή","ῌ","ῐ","ῑ","ῒ","ΐ","ῖ","ῗ","Ῐ","Ῑ","Ὶ",
    "Ί","ῠ","ῡ","ῢ","ΰ","ῤ","ῥ","ῦ","ῧ","Ῠ","Ῡ","Ὺ",
    "Ύ","Ῥ","ῲ","ῳ","ῴ","ῶ","ῷ","Ὸ","Ό","Ὼ","Ώ","ῼ",
    "ₐ","ₑ","ₒ","ₓ","ₔ","ₕ","ₖ","ₗ","ₘ","ₙ","ₚ","ₛ",
    "ₜ","Ↄ","ↄ","Ⓐ","Ⓑ","Ⓒ","Ⓓ","Ⓔ","Ⓕ","Ⓖ","Ⓗ","Ⓘ",
    "Ⓙ","Ⓚ","Ⓛ","Ⓜ","Ⓝ","Ⓞ","Ⓟ","Ⓠ","Ⓡ","Ⓢ","Ⓣ","Ⓤ",
    "Ⓥ","Ⓦ","Ⓧ","Ⓨ","Ⓩ","ⓐ","ⓑ","ⓒ","ⓓ","ⓔ","ⓕ","ⓖ",
    "ⓗ","ⓘ","ⓙ","ⓚ","ⓛ","ⓜ","ⓝ","ⓞ","ⓟ","ⓠ","ⓡ","ⓢ",
    "ⓣ","ⓤ","ⓥ","ⓦ","ⓧ","ⓨ","ⓩ","Ⲁ","ⲁ","Ⲃ","ⲃ","Ⲅ",
    "ⲅ","Ⲇ","ⲇ","Ⲉ","ⲉ","Ⲋ","ⲋ","Ⲍ","ⲍ","Ⲏ","ⲏ","Ⲑ",
    "ⲑ","Ⲓ","ⲓ","Ⲕ","ⲕ","Ⲗ","ⲗ","Ⲙ","ⲙ","Ⲛ","ⲛ","Ⲝ",
    "ⲝ","Ⲟ","ⲟ","Ⲡ","ⲡ","Ⲣ","ⲣ","Ⲥ","ⲥ","Ⲧ","ⲧ","Ⲩ",
    "ⲩ","Ⲫ","ⲫ","Ⲭ","ⲭ","Ⲯ","ⲯ","Ⲱ","ⲱ","Ⲳ","ⲳ","Ⲵ",
    "ⲵ","Ⲷ","ⲷ","Ⲹ","ⲹ","Ⲻ","ⲻ","Ⲽ","ⲽ","Ⲿ","ⲿ","Ⳁ",
    "ⳁ","Ⳃ","ⳃ","Ⳅ","ⳅ","Ⳇ","ⳇ","Ⳉ","ⳉ","Ⳋ","ⳋ","Ⳍ",
    "ⳍ","Ⳏ","ⳏ","Ⳑ","ⳑ","Ⳓ","ⳓ","Ⳕ","ⳕ","Ⳗ","ⳗ","Ⳙ",
    "ⳙ","Ⳛ","ⳛ","Ⳝ","ⳝ","Ⳟ","ⳟ","Ⳡ","ⳡ","Ⳣ","ⳣ","ⳤ",
    "Ⳬ","ⳬ","Ⳮ","ⳮ","Ⳳ","ⳳ","Ꚁ","ꚁ","Ꚃ","ꚃ","Ꚅ","ꚅ",
    "Ꚇ","ꚇ","Ꚉ","ꚉ","Ꚋ","ꚋ","Ꚍ","ꚍ","Ꚏ","ꚏ","Ꚑ","ꚑ",
    "Ꚓ","ꚓ","Ꚕ","ꚕ","Ꚗ","ꚗ","Ꚙ","ꚙ","Ꚛ","ꚛ","ꚜ","ꚝ",
    "Ꞁ","ꞁ","Ꞃ","ꞃ","Ꞅ","ꞅ","Ꞇ","ꞇ","Ꞌ","ꞌ","Ɥ","ꞎ",
    "Ꞑ","ꞑ","Ꞓ","ꞓ","ꞔ","ꞕ","Ꞗ","ꞗ","Ꞙ","ꞙ","Ꞛ","ꞛ",
    "Ꞝ","ꞝ","Ꞟ","ꞟ","Ꞡ","ꞡ","Ꞣ","ꞣ","Ꞥ","ꞥ","Ꞧ","ꞧ",
    "Ꞩ","ꞩ","Ɦ","Ɜ","Ɡ","Ɬ","Ɪ","ꞯ","Ʞ","Ʇ","Ʝ","Ꭓ",
    "Ꞵ","ꞵ","Ꞷ","ꞷ","Ꞹ","ꞹ","Ꞻ","ꞻ","Ꞽ","ꞽ","Ꞿ","ꞿ",
    "Ꟁ","ꟁ","Ꟃ","ꟃ","Ꞔ","Ʂ","Ᶎ","Ꟈ","ꟈ","Ꟊ","ꟊ","Ɤ",
    "Ꟍ","ꟍ","꟎","꟏","Ꟑ","ꟑ","꟒","ꟓ","꟔","ꟕ","Ꟗ","ꟗ",
    "Ꟙ","ꟙ","Ꟛ","ꟛ","Ƛ","꟱","ꟲ","ꟳ","ꟴ","Ꟶ","ꟶ","ꟸ",
    "ꟹ","ꟺ","ꮀ","ꮁ","ꮂ","ꮃ","ꮄ","ꮅ","ꮆ","ꮇ","ꮈ","ꮉ",
    "ꮊ","ꮋ","ꮌ","ꮍ","ꮎ","ꮏ","ꮐ","ꮑ","ꮒ","ꮓ","ꮔ","ꮕ",
    "ꮖ","ꮗ","ꮘ","ꮙ","ꮚ","ꮛ","ꮜ","ꮝ","ꮞ","ꮟ","ꮠ","ꮡ",
    "ꮢ","ꮣ","ꮤ","ꮥ","ꮦ","ꮧ","ꮨ","ꮩ","ꮪ","ꮫ","ꮬ","ꮭ",
    "ꮮ","ꮯ","ꮰ","ꮱ","ꮲ","ꮳ","ꮴ","ꮵ","ꮶ","ꮷ","ꮸ","ꮹ",
    "ꮺ","ꮻ","ꮼ","ꮽ","ꮾ","ꮿ"
  }

\* The characters with the Unicode property Case_Ignorable.
CaseIgnorable ==
  {
    "'",".",":","^","¨","­","¯","´","·","¸","ʰ","ʱ",
    "ʲ","ʳ","ʴ","ʵ","ʶ","ʷ","ʸ","ʹ","ʺ","ʻ","ʼ","ʽ",
    "ʾ","ʿ","ˀ","ˁ","˂","˃","˄","˅","ˆ","ˇ","ˈ","ˉ",
    "ˊ","ˋ","ˌ","ˍ","ˎ","ˏ","ː","ˑ","˒","˓","˔","˕",
    "˖","˗","˘","˙","˚","˛","˜","˝","˞","˟","ˠ","ˡ",
    "ˢ","ˣ","ˤ","˥","˦","˧","˨","˩","˪","˫","ˬ","˭",
    "ˮ","˯","˰","˱","˲","˳","˴","˵","˶","˷","˸","˹",
    "˺","˻","˼","˽","˾","˿","΄","΅","·","҃","҄","҅",
    "҆","҇","҈","҉","֑","֒","֓","֔","֕","֖","֗","֘",
    "֙","֚","֛","֜","֝","֞","֟","֠","֡","֢","֣","֤",
    "֥","֦","֧","֨","֩","֪","֫","֬","֭","֮","֯","ְ",
    "ֱ","ֲ","ֳ","ִ","ֵ","ֶ","ַ","ָ","ֹ","ֺ","ֻ","ּ",
    "ֽ","ֿ","ׁ","ׂ","ׄ","ׅ","ׇ","״","ۖ","ۗ","ۘ","ۙ",
    "ۚ","ۛ","ۜ","۝","۟","۠","ۡ","ۢ","ۣ","ۤ","ۥ","ۦ",
    "ۧ","ۨ","۪","۫","۬","ۭ","ަ","ާ","ި","ީ","ު","ޫ",
    "ެ","ޭ","ޮ","ޯ","ް","߫","߬","߭","߮","߯","߰","߱",
    "߲","߳","ߴ","ߵ","ߺ","߽","࢈","࢐","࢑","ࢗ","࢘","࢙",
    "࢚","࢛","࢜","࢝","࢞","࢟","ࣉ","࣊","࣋","࣌","࣍","࣎",
    "࣏","࣐","࣑","࣒","࣓","ࣔ","ࣕ","ࣖ","ࣗ","ࣘ","ࣙ","ࣚ",
    "ࣛ","ࣜ","ࣝ","ࣞ","ࣟ","࣠","࣡","࣢","ࣣ","ࣤ","ࣥ","ࣦ",
    "ࣧ","ࣨ","ࣩ","࣪","࣫","࣬","࣭","࣮","࣯","ࣰ","ࣱ","ࣲ",
    "ࣳ","ࣴ","ࣵ","ࣶ","ࣷ","ࣸ","ࣹ","ࣺ","ࣻ","ࣼ","ࣽ","ࣾ",
    "ࣿ","ঁ","়","ু","ূ","ৃ","ৄ","্","ৢ","ৣ","৾","ઁ",
    "ં","઼","ુ","ૂ","ૃ","ૄ","ૅ","ે","ૈ","્","ૢ","ૣ",
    "ૺ","ૻ","ૼ","૽","૾","૿","ஂ","ீ","்","ಁ","಼","ಿ",
    "ೆ","ೌ","್","ೢ","ೣ","ඁ","්","ි","ී","ු","ූ","ັ",
    "ິ","ີ","ຶ","ື","ຸ","ູ","຺","ົ","ຼ","ໆ","່","້",
    "໊","໋","໌","ໍ","໎","ྀ","ཱྀ","ྂ","ྃ","྄","྆","྇",
    "ྍ","ྎ","ྏ","ྐ","ྑ","ྒ","ྒྷ","ྔ","ྕ","ྖ","ྗ","ྙ",
    "ྚ","ྛ","ྜ","ྜྷ","ྞ","ྟ","ྠ","ྡ","ྡྷ","ྣ","ྤ","ྥ",
    "ྦ","ྦྷ","ྨ","ྩ","ྪ","ྫ","ྫྷ","ྭ","ྮ","ྯ","ྰ","ྱ",
    "ྲ","ླ","ྴ","ྵ","ྶ","ྷ","ྸ","ྐྵ","ྺ","ྻ","ྼ","࿆",
    "ႂ","ႅ","ႆ","ႍ","ႝ","ჼ","឴","឵","ិ","ី","ឹ","ឺ",
    "ុ","ូ","ួ","ំ","៉","៊","់","៌","៍","៎","៏","័",
    "៑","្","៓","ៗ","៝","ᢅ","ᢆ","ᢩ","ᪧ","᪰","᪱","᪲",
    "᪳","᪴","᪵","᪶","᪷","᪸","᪹","᪺","᪻","᪼","᪽","᪾",
    "ᪿ","ᫀ","᫁","᫂","᫃","᫄","᫅","᫆","᫇","᫈","᫉","᫊",
    "᫋","ᫌ","ᫍ","ᫎ","᫏","᫐","᫑","᫒","᫓","᫔","᫕","᫖",
    "᫗","᫘","᫙","᫚","᫛","᫜","᫝","᫠","᫡","᫢","᫣","᫤",
    "᫥","᫦","᫧","᫨","᫩","᫪","᫫","ᮀ","ᮁ","ᮢ","ᮣ","ᮤ",
    "ᮥ","ᮨ","ᮩ","᮫","ᮬ","ᮭ","᯦","ᯨ","ᯩ","ᯭ","ᯯ","ᯰ",
    "ᯱ","᳐","᳑","᳒","᳔","᳕","᳖","᳗","᳘","᳙","᳚","᳛",
    "᳜","᳝","᳞","᳟","᳠","᳢","᳣","᳤","᳥","᳦","᳧","᳨",
    "᳭","᳴","᳸","᳹","ᶛ","ᶜ","ᶝ","ᶞ","ᶟ","ᶠ","ᶡ","ᶢ",
    "ᶣ","ᶤ","ᶥ","ᶦ","ᶧ","ᶨ","ᶩ","ᶪ","ᶫ","ᶬ","ᶭ","ᶮ",
    "ᶯ","ᶰ","ᶱ","ᶲ","ᶳ","ᶴ","ᶵ","ᶶ","ᶷ","ᶸ","ᶹ","ᶺ",
    "ᶻ","ᶼ","ᶽ","ᶾ","ᶿ","᷀","᷁","᷂","᷃","᷄","᷅","᷆",
    "᷇","᷈","᷉","᷊","᷋","᷌","᷍","᷎","᷏","᷐","᷑","᷒",
    "ᷓ","ᷔ","ᷕ","ᷖ","ᷗ","ᷘ","ᷙ","ᷚ","ᷛ","ᷜ","ᷝ","ᷞ",
    "ᷟ","ᷠ","ᷡ","ᷢ","ᷣ","ᷤ","ᷥ","ᷦ","ᷧ","ᷨ","ᷩ","ᷪ",
    "ᷫ","ᷬ","ᷭ","ᷮ","ᷯ","ᷰ","ᷱ","ᷲ","ᷳ","ᷴ","᷵","᷶",
    "᷷","᷸","᷹","᷺","᷻","᷼","᷽","᷾","᷿","᾽","᾿","῀",
    "῁","῍","῎","῏","῝","῞","῟","῭","΅","`","´","῾",
    "ₐ","ₑ","ₒ","ₓ","ₔ","ₕ","ₖ","ₗ","ₘ","ₙ","ₚ","ₛ",
    "ₜ","⃐","⃑","⃒","⃓","⃔","⃕","⃖","⃗","⃘","⃙","⃚",
    "⃛","⃜","⃝","⃞","⃟","⃠","⃡","⃢","⃣","⃤","⃥","⃦",
    "⃧","⃨","⃩","⃪","⃫","⃬","⃭","⃮","⃯","⃰","⳯","⳰",
    "⳱","ⷠ","ⷡ","ⷢ","ⷣ","ⷤ","ⷥ","ⷦ","ⷧ","ⷨ","ⷩ","ⷪ",
    "ⷫ","ⷬ","ⷭ","ⷮ","ⷯ","ⷰ","ⷱ","ⷲ","ⷳ","ⷴ","ⷵ","ⷶ",
    "ⷷ","ⷸ","ⷹ","ⷺ","ⷻ","ⷼ","ⷽ","ⷾ","ⷿ","゙","゚","゛",
    "゜","ゝ","ゞ","ー","ヽ","ヾ","ꓸ","ꓹ","ꓺ","ꓻ","ꓼ","ꓽ",
    "ꚜ","ꚝ","ꚞ","ꚟ","꛰","꛱","ꞈ","꞉","꞊","꟱","ꟲ","ꟳ",
    "ꟴ","ꟸ","ꟹ","꣄","ꣅ","꣠","꣡","꣢","꣣","꣤","꣥","꣦",
    "꣧","꣨","꣩","꣪","꣫","꣬","꣭","꣮","꣯","꣰","꣱","ꣿ",
    "ꦀ","ꦁ","ꦂ","꦳","ꦶ","ꦷ","ꦸ","ꦹ","ꦼ","ꦽ","ꧏ","ꧥ",
    "ꧦ","ꪰ","ꪲ","ꪳ","ꪴ","ꪷ","ꪸ","ꪾ","꪿","꫁","ꫝ","ꫬ",
    "ꫭ","ꫳ","ꫴ","꫶","ꯥ","ꯨ","꯭","﮲","﮳","﮴","﮵","﮶",
    "﮷","﮸","﮹","﮺","﮻","﮼","﮽","﮾","﮿","﯀","﯁","﯂",
    "﻿","ﾞ","ﾟ","￣","￹","￺","￻"
  }

\* What String.prototype.trim strips (WhiteSpace and LineTerminator of
\* ECMAScript): tab, line feed, vertical tab (U+000B), form feed, carriage
\* return, space, no-break space (U+00A0), U+1680 and U+FEFF; U+2000-U+200A,
\* U+2028, U+2029, U+202F, U+205F and U+3000 are not among the characters a
\* literal holds.
WhiteSpace == {" ", "\t", "\n", "\r", "\f", "", " ", " ", "﻿"}

LowerChar(c) ==
    IF c \in Capitals
    THEN LowerAlpha[CHOOSE i \in 1..Len(UpperAlpha) : UpperAlpha[i] = c]
    ELSE c

\* String.prototype.toLowerCase.  The condition Final_Sigma of Unicode's
\* SpecialCasing: a capital sigma that ends a word becomes the final small
\* sigma; it ends a word when the nearest character before it that is not
\* case-ignorable is cased and the nearest one after it is not.
ToLowerCase(s) ==
    LET AfterCased(i) ==
            \E j \in 1..(i - 1) :
                /\ s[j] \in Cased /\ s[j] \notin CaseIgnorable
                /\ \A k \in (j + 1)..(i - 1) : s[k] \in CaseIgnorable
        BeforeCased(i) ==
            \E j \in (i + 1)..Len(s) :
                /\ s[j] \in Cased /\ s[j] \notin CaseIgnorable
                /\ \A k \in (i + 1)..(j - 1) : s[k] \in CaseIgnorable
        FinalSigma(i) == s[i] = "Σ" /\ AfterCased(i) /\ ~BeforeCased(i)
    IN  [i \in 1..Len(s) |-> IF FinalSigma(i) THEN "ς" ELSE LowerChar(s[i])]

RECURSIVE TrimStart(_)
TrimStart(s) ==
    IF s # <<>> /\ s[1] \in WhiteSpace THEN TrimStart(Tail(s)) ELSE s

RECURSIVE TrimEnd(_)
TrimEnd(s) ==
    IF s # <<>> /\ s[Len(s)] \in WhiteSpace
    THEN TrimEnd(SubSeq(s, 1, Len(s) - 1))
    ELSE s

\* String.prototype.trim
Trim(s) == TrimEnd(TrimStart(s))

\* t.model.split("/").pop()
RECURSIVE LastSegment(_)
LastSegment(s) ==
    IF \E i \in 1..Len(s) : s[i] = "/"
    THEN LET i == CHOOSE j \in 1..Len(s) :
                      s[j] = "/" /\ \A h \in 1..(j - 1) : s[h] # "/"
         IN  LastSegment(SubSeq(s, i + 1, Len(s)))
    ELSE s

\* A JavaScript value used as a condition: a string is truthy unless it is
\* empty; undefined is falsy.
TruthyString(s) == s # Undefined /\ s # <<>>

-----------------------------------------------------------------------------
\* Objects: sequences of [k |-> key, v |-> value] in enumeration order.

\* Property names every object inherits from Object.prototype; obj[name] is
\* then truthy (a function, or Object.prototype itself for __proto__) with no
\* enumerable entries, although name is not a key.
ProtoNames ==
    { <<"c","o","n","s","t","r","u","c","t","o","r">>,
      <<"t","o","S","t","r","i","n","g">>,
      <<"t","o","L","o","c","a","l","e","S","t","r","i","n","g">>,
      <<"v","a","l","u","e","O","f">>,
      <<"h","a","s","O","w","n","P","r","o","p","e","r","t","y">>,
      <<"i","s","P","r","o","t","o","t","y","p","e","O","f">>,
      <<"p","r","o","p","e","r","t","y","I","s","E","n","u","m","e","r","a","b","l","e">>,
      <<"_","_","p","r","o","t","o","_","_">>,
      <<"_","_","d","e","f","i","n","e","G","e","t","t","e","r","_","_">>,
      <<"_","_","d","e","f","i","n","e","S","e","t","t","e","r","_","_">>,
      <<"_","_","l","o","o","k","u","p","G","e","t","t","e","r","_","_">>,
      <<"_","_","l","o","o","k","u","p","S","e","t","t","e","r","_","_">> }

\* Object.keys(obj)
Keys(obj) == [i \in 1..Len(obj) |-> obj[i].k]

HasOwn(obj, name) == \E i \in 1..Len(obj) : obj[i].k = name

\* obj[name] for an own key
Get(obj, name) == obj[CHOOSE i \in 1..Len(obj) : obj[i].k = name].v

\* Boolean(obj[name]) when every own value is an object
Has(obj, name) == HasOwn(obj, name) \/ name \in ProtoNames

RECURSIVE SelectSeq2(_, _)
\* Array.prototype.filter with the predicate given as a set of kept values
SelectSeq2(s, keep) ==
    IF s = <<>> THEN <<>>
    ELSE IF s[1] \in keep THEN <<s[1]>> \o SelectSeq2(Tail(s), keep)
    ELSE SelectSeq2(Tail(s), keep)

-----------------------------------------------------------------------------
\* The validator (index.ts:430-508).  A decoded document is a record whose
\* fields carry, next to each value, the tag the validator's typeof /
\* Array.isArray tests see.

\* A thrown validation error: which check failed and the path its message
\* names ("ok", no path: nothing was thrown).
Err(error, at) == [error |-> error, at |-> at]

Ok == Err("ok", <<>>)

RECURSIVE FirstError(_)
\* The first thrown error of a sequence of checks run in order (Ok: none).
FirstError(results) ==
    IF results = <<>> THEN Ok
    ELSE IF results[1] # Ok THEN results[1]
    ELSE FirstError(Tail(results))

\* index.ts:451-463, one tier entry.  typeof [] is "object": an array passes
\* the test at 451 and has no model.
ValidateTier(presetName, tierName, tier) ==
    IF tier.t \notin {"object", "array"}
    THEN Err("tier must be an object", <<presetName, tierName>>)
    ELSE IF tier.modelT # "string" \/ tier.model = <<>>
    THEN Err("model must be a non-empty string", <<presetName, tierName>>)
    ELSE IF tier.descriptionT # "string"
    THEN Err("description must be a string", <<presetName, tierName>>)
    ELSE IF tier.whenToUseT # "array"
    THEN Err("whenToUse must be an array", <<presetName, tierName>>)
    ELSE Ok

\* index.ts:446-464, one preset entry
ValidatePreset(presetName, preset) ==
    IF preset.t # "object" THEN Err("preset must be an object", <<presetName>>)
    ELSE FirstError([i \in 1..Len(preset.tiers) |->
                        ValidateTier(presetName, preset.tiers[i].k, preset.tiers[i].v)])

\* index.ts:481-490, one mode entry.  An array passes the test at 481.
ValidateMode(modeName, mode) ==
    IF mode.t \notin {"object", "array"}
    THEN Err("mode must be an object", <<modeName>>)
    ELSE IF mode.defaultTierT # "string"
    THEN Err("mode defaultTier must be a string", <<modeName>>)
    ELSE IF mode.descriptionT # "string"
    THEN Err("mode description must be a string", <<modeName>>)
    ELSE Ok

\* index.ts:430-508.  Ok when raw is returned as the RouterConfig, else the
\* error the validator throws.  An array root passes the test at 431 and has
\* no activePreset.
validateConfig(raw) ==
    FirstError(<<
        IF raw.rootT \notin {"object", "array"}
            THEN Err("expected a JSON object at root", <<>>) ELSE Ok,
        IF raw.activePresetT # "string" \/ raw.activePreset = <<>>
            THEN Err("activePreset must be a non-empty string", <<>>) ELSE Ok,
        IF raw.presetsT # "object"
            THEN Err("presets must be a non-null object", <<>>) ELSE Ok,
        FirstError([i \in 1..Len(raw.presets) |->
                        ValidatePreset(raw.presets[i].k, raw.presets[i].v)]),
        IF raw.rulesT # "array" THEN Err("rules must be an array of strings", <<>>) ELSE Ok,
        IF raw.defaultTierT # "string" THEN Err("defaultTier must be a string", <<>>) ELSE Ok,
        IF raw.modesT = "undefined" THEN Ok
            ELSE IF raw.modesT # "object" THEN Err("modes must be an object", <<>>)
            ELSE FirstError([i \in 1..Len(raw.modes) |->
                                ValidateMode(raw.modes[i].k, raw.modes[i].v)]),
        IF raw.taskPatternsT = "undefined" THEN Ok
            ELSE IF raw.taskPatternsT # "object"
            THEN Err("taskPatterns must be an object", <<>>)
            ELSE FirstError([i \in 1..Len(raw.taskPatterns) |->
                    IF raw.taskPatterns[i].v.t # "array"
                    THEN Err("taskPatterns entry must be an array of strings",
                             <<raw.taskPatterns[i].k>>)
                    ELSE Ok])
    >>)

\* JSON.parse(readFileSync(configPath())) followed by validateConfig
\* (index.ts:515-516) completes without throwing.
Loadable(d) == d.file = "ok" /\ validateConfig(d) = Ok

-----------------------------------------------------------------------------
\* Name resolution and the cache (index.ts:396-538)

\* resolvePresetName without the exact-match test at 418-420: the first key
\* equal up to letter case wins.
resolvePresetNameFolded(c, requestedPreset) ==
    LET normalized == ToLowerCase(Trim(requestedPreset))
        names == Keys(c.presets)
        hits == {i \in 1..Len(names) : ToLowerCase(names[i]) = normalized}
    IN  IF normalized = <<>> THEN Undefined
        ELSE IF hits = {} THEN Undefined
        ELSE names[CHOOSE i \in hits : \A j \in hits : i <= j]

\* index.ts:417-428.  Undefined stands for the JavaScript undefined.
resolvePresetName(c, requestedPreset) ==
    IF Has(c.presets, requestedPreset) THEN requestedPreset
    ELSE LET normalized == ToLowerCase(Trim(requestedPreset))
             names == Keys(c.presets)
             hits == {i \in 1..Len(names) : ToLowerCase(names[i]) = normalized}
         IN  IF normalized = <<>> THEN Undefined
             ELSE IF hits = {} THEN Undefined
             ELSE names[CHOOSE i \in hits : \A j \in hits : i <= j]

\* cfg.modes?.[name] as a condition (index.ts:527, 582)
HasMode(c, name) == c.modesT = "object" /\ Has(c.modes, name)

\* The override file with 0 bytes, or with the beginning of a text cut before
\* its closing brace: it exists and JSON.parse throws on it.
EmptyFile == [t |-> "corrupt", activePreset |-> Undefined, activeMode |-> Undefined]

\* index.ts:545-554: the persisted record, {} when the file is absent or does
\* not parse.
readState(file) ==
    IF file.t = "object"
    THEN [activePreset |-> file.activePreset, activeMode |-> file.activeMode]
    ELSE [activePreset |-> Undefined, activeMode |-> Undefined]

\* index.ts:527-529 on the configuration c
ApplyMode(c, file) ==
    IF TruthyString(file.activeMode) /\ HasMode(c, file.activeMode)
    THEN [c EXCEPT !.activeMode = file.activeMode]
    ELSE c

\* index.ts:523-525: resolved is what resolvePresetName returned at 522
ApplyPreset(c, resolved) ==
    IF TruthyString(resolved) THEN [c EXCEPT !.activePreset = resolved] ELSE c

\* loadConfig without the block at 518-533: the override file is not read.
ApplyStateIgnored(c, file) == c

\* index.ts:518-533: the override file applied to a validated document.
ApplyState(c, file) ==
    IF file.t # "object" THEN c
    ELSE IF TruthyString(file.activePreset)
    THEN ApplyMode(ApplyPreset(c, resolvePresetName(c, file.activePreset)), file)
    ELSE ApplyMode(c, file)

\* The module-level cache has an entry (index.ts:511, _cachedConfig non-null).
Cached(c) == c.file # "null"

\* loadConfig testing only that the cache has an entry: the dirty flag is
\* ignored and an invalidated cache is returned as it is.
loadConfigSticky(cache, dirty, d, file) ==
    IF Cached(cache)
    THEN [threw |-> FALSE, cache |-> cache, dirty |-> dirty, readDisk |-> FALSE]
    ELSE IF ~Loadable(d)
    THEN [threw |-> TRUE, cache |-> cache, dirty |-> dirty, readDisk |-> TRUE]
    ELSE [threw |-> FALSE, cache |-> ApplyState(d, file), dirty |-> FALSE,
          readDisk |-> TRUE]

\* loadConfig forgetting the cache after each hit: the entry is returned and
\* the cache marked dirty.
loadConfigOnce(cache, dirty, d, file) ==
    IF Cached(cache) /\ ~dirty
    THEN [threw |-> FALSE, cache |-> cache, dirty |-> TRUE, readDisk |-> FALSE]
    ELSE IF ~Loadable(d)
    THEN [threw |-> TRUE, cache |-> cache, dirty |-> dirty, readDisk |-> TRUE]
    ELSE [threw |-> FALSE, cache |-> ApplyState(d, file), dirty |-> FALSE,
          readDisk |-> TRUE]

\* loadConfig that gives up after a failure: the cache is marked clean, so
\* the old entry is served without another read.
loadConfigGivingUp(cache, dirty, d, file) ==
    IF Cached(cache) /\ ~dirty
    THEN [threw |-> FALSE, cache |-> cache, dirty |-> dirty, readDisk |-> FALSE]
    ELSE IF ~Loadable(d)
    THEN [threw |-> TRUE, cache |-> cache, dirty |-> FALSE, readDisk |-> TRUE]
    ELSE [threw |-> FALSE, cache |-> ApplyState(d, file), dirty |-> FALSE,
          readDisk |-> TRUE]

\* index.ts:510-538.  threw: the call ended in an exception, the cache is as
\* it was; otherwise value is the returned configuration, which is the cache
\* entry itself.
loadConfig(cache, dirty, d, file) ==
    IF Cached(cache) /\ ~dirty
    THEN [threw |-> FALSE, cache |-> cache, dirty |-> dirty, readDisk |-> FALSE]
    ELSE IF ~Loadable(d)
    THEN [threw |-> TRUE, cache |-> cache, dirty |-> dirty, readDisk |-> TRUE]
    ELSE [threw |-> FALSE, cache |-> ApplyState(d, file), dirty |-> FALSE,
          readDisk |-> TRUE]

\* writeState with the spread at 558 reversed: a key already persisted wins
\* over the patch.
writeStateStale(d, file, key, value) ==
    [doc |-> d,
     stateFile |->
        [t |-> "object",
         activePreset |-> IF key = "activePreset" /\ ~TruthyString(readState(file).activePreset)
                          THEN value ELSE readState(file).activePreset,
         activeMode |-> IF key = "activeMode" /\ ~TruthyString(readState(file).activeMode)
                        THEN value ELSE readState(file).activeMode]]

\* writeState also rewriting activePreset in tiers.json, as the save function
\* at index.ts:57-61 did.
writeStateToDocument(d, file, key, value) ==
    [doc |-> IF key = "activePreset" THEN [d EXCEPT !.activePreset = value] ELSE d,
     stateFile |->
        [t |-> "object",
         activePreset |-> IF key = "activePreset" THEN value
                          ELSE readState(file).activePreset,
         activeMode |-> IF key = "activeMode" THEN value
                        ELSE readState(file).activeMode]]

\* writeState without the spread of readState() at 558: the patch alone is
\* written and the other key is lost.
writeStatePatchOnly(d, file, key, value) ==
    [doc |-> d,
     stateFile |->
        [t |-> "object",
         activePreset |-> IF key = "activePreset" THEN value ELSE Undefined,
         activeMode |-> IF key = "activeMode" THEN value ELSE Undefined]]

\* writeState leaving a file it cannot parse as it is.
writeStateKeepCorrupt(d, file, key, value) ==
    IF file.t = "corrupt" THEN [doc |-> d, stateFile |-> file]
    ELSE [doc |-> d,
          stateFile |->
             [t |-> "object",
              activePreset |-> IF key = "activePreset" THEN value
                               ELSE readState(file).activePreset,
              activeMode |-> IF key = "activeMode" THEN value
                             ELSE readState(file).activeMode]]

\* index.ts:557-562: the two files after writeState(patch); a patch names the
\* key it sets.  Only the override file is written.
writeState(d, file, key, value) ==
    LET state == readState(file)
    IN  [doc |-> d,
         stateFile |->
            [t |-> "object",
             activePreset |-> IF key = "activePreset" THEN value ELSE state.activePreset,
             activeMode |-> IF key = "activeMode" THEN value ELSE state.activeMode]]

\* index.ts:591-593.  t = "object": an own preset; "inherited": a property of
\* Object.prototype, which has no entries; "undefined": no preset at all.
getActiveTiers(c) ==
    IF HasOwn(c.presets, c.activePreset)
    THEN [t |-> "object", tiers |-> Get(c.presets, c.activePreset).tiers]
    ELSE IF c.activePreset \in ProtoNames THEN [t |-> "inherited", tiers |-> <<>>]
    ELSE IF c.presets # <<>> THEN [t |-> "object", tiers |-> c.presets[1].v.tiers]
    ELSE [t |-> "undefined", tiers |-> <<>>]

\* index.ts:626-629.  t = "undefined": no mode; "object": a configured mode;
\* "inherited": a property of Object.prototype (truthy, every field undefined).
getActiveMode(c) ==
    IF c.modesT # "object" \/ ~TruthyString(c.activeMode) THEN [t |-> "undefined"]
    ELSE IF HasOwn(c.modes, c.activeMode)
    THEN [t |-> "object", mode |-> Get(c.modes, c.activeMode)]
    ELSE IF c.activeMode \in ProtoNames THEN [t |-> "inherited"]
    ELSE [t |-> "undefined"]

-----------------------------------------------------------------------------
\* The builders (index.ts:635-777).  A rendered text is kept as the record of
\* its blocks; a block that is left out of the text is the empty sequence.

\* index.ts:645-648: the provider's list filtered, as a line if any is left
ValidOrder(c, provider, presetOrder) ==
    LET validOrder ==
            SelectSeq2(presetOrder,
                       {p \in {presetOrder[i] : i \in 1..Len(presetOrder)} :
                            p # c.activePreset /\ Has(c.presets, p)})
    IN  IF validOrder # <<>> THEN << [provider |-> provider, order |-> validOrder] >>
        ELSE <<>>

\* index.ts:643-649, one provider of the chosen map
FallbackLine(c, entry) ==
    IF entry.v.t # "array" THEN <<>> ELSE ValidOrder(c, entry.k, entry.v.order)

RECURSIVE FlatMap(_, _)
FlatMap(c, entries) ==
    IF entries = <<>> THEN <<>>
    ELSE FallbackLine(c, entries[1]) \o FlatMap(c, Tail(entries))

\* A variant of FallbackOf that consults the global map whenever nothing of
\* the active preset's own map survives the filter.
FallbackOfFallThrough(c, fb, presetMap) ==
    IF FlatMap(c, presetMap) # <<>> THEN FlatMap(c, presetMap)
    ELSE IF fb.globalT = "object" THEN FlatMap(c, fb.global)
    ELSE <<>>

\* index.ts:640-649: the map chosen between the active preset's own
\* (presetMap) and the global one, rendered
FallbackOf(c, fb, presetMap) ==
    IF presetMap # <<>> THEN FlatMap(c, presetMap)
    ELSE IF fb.globalT = "object" THEN FlatMap(c, fb.global)
    ELSE <<>>

\* index.ts:635-660: the provider lines of the fallback block (none: the
\* block is absent).
buildFallbackInstructions(c) ==
    IF c.fallbackT # "object" THEN <<>>
    ELSE IF c.fallback.presetsT = "object" /\ HasOwn(c.fallback.presets, c.activePreset)
    THEN FallbackOf(c, c.fallback, Get(c.fallback.presets, c.activePreset))
    ELSE FallbackOf(c, c.fallback, <<>>)

RECURSIVE TaxonomyLines(_)
TaxonomyLines(entries) ==
    IF entries = <<>> THEN <<>>
    ELSE (IF entries[1].v.t = "array" /\ entries[1].v.patterns # <<>>
          THEN << [tier |-> entries[1].k, patterns |-> entries[1].v.patterns] >>
          ELSE <<>>) \o TaxonomyLines(Tail(entries))

\* index.ts:666-676: the lines of the taxonomy text, header first (none: the
\* text is empty and the block is absent).
buildTaskTaxonomy(c) ==
    IF c.taskPatternsT # "object" \/ c.taskPatterns = <<>> THEN <<>>
    ELSE << [tier |-> <<>>, patterns |-> <<>>] >> \o TaxonomyLines(c.taskPatterns)

RECURSIVE CostPairs(_)
\* index.ts:680-682: the tiers whose costRatio is neither null nor undefined
CostPairs(tiers) ==
    IF tiers = <<>> THEN <<>>
    ELSE (IF tiers[1].v.costRatioT \notin {"undefined", "null"}
          THEN << [tier |-> tiers[1].k, ratio |-> tiers[1].v.costRatio] >>
          ELSE <<>>) \o CostPairs(Tail(tiers))

\* index.ts:678-687
buildCostAwareness(c) == CostPairs(getActiveTiers(c).tiers)

\* The rule choice at 720 made a merge: the override rules, then the global.
RulesOfTruthy(c, mode) ==
    IF /\ mode.t = "object"
       /\ \/ mode.mode.overrideRulesT = "array"
          \/ mode.mode.overrideRulesT = "string" /\ mode.mode.overrideRules # <<>>
    THEN mode.mode.overrideRules
    ELSE c.rules

RulesOfMerged(c, mode) ==
    IF mode.t = "object" /\ mode.mode.overrideRulesT \in {"array", "string"}
       /\ mode.mode.overrideRules # <<>>
    THEN mode.mode.overrideRules \o c.rules
    ELSE c.rules

\* index.ts:720: mode?.overrideRules?.length ? mode.overrideRules : cfg.rules
RulesOf(c, mode) ==
    IF mode.t = "object" /\ mode.mode.overrideRulesT \in {"array", "string"}
       /\ mode.mode.overrideRules # <<>>
    THEN mode.mode.overrideRules
    ELSE c.rules

\* index.ts:719-720
EffectiveRules(c) == RulesOf(c, getActiveMode(c))

\* index.ts:721-723
NumberedRules(rules) == [i \in 1..Len(rules) |-> [n |-> i, rule |-> rules[i]]]

\* index.ts:696-702
TierSummary(tiers) ==
    [i \in 1..Len(tiers) |->
        [name |-> tiers[i].k, shortModel |-> LastSegment(tiers[i].v.model),
         variant |-> tiers[i].v.variant]]

\* index.ts:705-710
TierDescriptions(tiers) ==
    [i \in 1..Len(tiers) |->
        [name |-> tiers[i].k,
         uses |-> IF tiers[i].v.whenToUse # <<>> THEN tiers[i].v.whenToUse
                  ELSE << tiers[i].v.description >>]]

\* index.ts:696-743 with tiers and mode as computed at 694 and 719.
\* kind = "throw": Object.entries(undefined) at 696 when there is no preset at
\* all, or effectiveRules.map at 721 when overrideRules is a non-empty string.
Protocol(c, tiers, mode) ==
    IF tiers.t = "undefined" THEN [kind |-> "throw", error |-> "TypeError"]
    ELSE IF mode.t = "object" /\ mode.mode.overrideRulesT = "string"
            /\ mode.mode.overrideRules # <<>>
    THEN [kind |-> "throw", error |-> "TypeError"]
    ELSE [kind |-> "text",
          preset |-> c.activePreset,
          tierSummary |-> TierSummary(tiers.tiers),
          tierDescriptions |-> TierDescriptions(tiers.tiers),
          taxonomy |-> buildTaskTaxonomy(c),
          costs |-> buildCostAwareness(c),
          modeLine |-> IF mode.t = "undefined" THEN <<>> ELSE << c.activeMode >>,
          rules |-> NumberedRules(EffectiveRules(c)),
          fallback |-> buildFallbackInstructions(c)]

\* index.ts:693-744
buildDelegationProtocol(c) == Protocol(c, getActiveTiers(c), getActiveMode(c))

\* index.ts:752-776 with tiers as computed at 751
TiersText(c, tiers) ==
    IF tiers.t = "undefined" THEN [kind |-> "throw", error |-> "TypeError"]
    ELSE [kind |-> "text",
          preset |-> c.activePreset,
          tiers |-> [i \in 1..Len(tiers.tiers) |->
                        [name |-> tiers.tiers[i].k, model |-> tiers.tiers[i].v.model,
                         description |-> tiers.tiers[i].v.description,
                         whenToUse |-> tiers.tiers[i].v.whenToUse]],
          rules |-> c.rules,
          defaultTier |-> c.defaultTier,
          presets |-> Keys(c.presets)]

\* index.ts:750-777
buildTiersOutput(c) == TiersText(c, getActiveTiers(c))

-----------------------------------------------------------------------------
\* The commands (index.ts:783-865, 964-991).  Each operator gives the state
\* the handler leaves and the result the host gets: a text, or kind =
\* "throw" when an exception leaves the handler.

\* index.ts:966-968: r is what loadConfig() did; the catch keeps the old cfg.
\* doc is tiers.json as the rest of the handler finds it, should it read the
\* file again.
Refreshed(r) ==
    [cache |-> r.cache, dirty |-> r.dirty,
     cfg |-> IF r.threw THEN cfg ELSE r.cache,
     loadFailed |-> r.threw, readDisk |-> r.readDisk,
     doc |-> doc]

\* What the handler's try { cfg = loadConfig() } catch {} leaves
\* (index.ts:953-957, 966-968, 973-975, 983-985).
Refresh == Refreshed(loadConfig(_cachedConfig, _configDirty, doc, stateFile))

\* Object.entries(cfg.presets[name]) rendered as tier/model pairs
\* (index.ts:849-852); a name inherited from Object.prototype has no entries.
ModelsOf(c, name) ==
    IF HasOwn(c.presets, name)
    THEN [i \in 1..Len(Get(c.presets, name).tiers) |->
             [tier |-> Get(c.presets, name).tiers[i].k,
              model |-> Get(c.presets, name).tiers[i].v.model]]
    ELSE <<>>

\* A save function ended: by an exception (threw; error is "load" for what
\* loadConfig throws and "write" for what mkdirSync or writeFileSync throws),
\* by its early return, or after its write and invalidateConfigCache() (saved).
SaveEnded(error, saved, cache, dirty, disk) ==
    [threw |-> error # "none", error |-> error, saved |-> saved,
     cache |-> cache, dirty |-> dirty,
     doc |-> disk.doc, stateFile |-> disk.stateFile]

\* The two files as a save function called by the handler h finds them and,
\* when it writes nothing, leaves them.
DiskOf(h) == [doc |-> h.doc, stateFile |-> stateFile]

\* The ways writeState's mkdirSync and writeFileSync (index.ts:560-561) end:
\* "ok"; "refused", an exception before the file is touched (mkdirSync or the
\* open fails); and an exception after writeFileSync opened the file with
\* O_TRUNC and wrote only the beginning of its text (disk full, quota, file
\* size limit): "truncated" when the closing brace was not reached, which
\* leaves the file empty or with text JSON.parse rejects, and "cut" when all
\* but the final line break was written, which leaves the new object.
WriteOutcomes == {"ok", "refused", "truncated", "cut"}

\* The two files after a write of { key: value } that ended in an exception.
FailedWrite(h, write, key, value) ==
    IF write = "cut" THEN writeState(h.doc, stateFile, key, value)
    ELSE [doc |-> h.doc,
          stateFile |-> IF write = "truncated" THEN EmptyFile ELSE stateFile]

\* index.ts:567-577: r is what loadConfig() did at 565, resolved what
\* resolvePresetName returned at 566.
SavePreset(r, h, resolved, write) ==
    IF ~TruthyString(resolved)
    THEN SaveEnded("none", FALSE, r.cache, r.dirty, DiskOf(h))
    ELSE IF write # "ok"
    THEN SaveEnded("write", FALSE, [r.cache EXCEPT !.activePreset = resolved], r.dirty,
                   FailedWrite(h, write, "activePreset", resolved))
    ELSE SaveEnded("none", TRUE, [r.cache EXCEPT !.activePreset = resolved], TRUE,
                   writeState(h.doc, stateFile, "activePreset", resolved))

\* index.ts:565-566
SavePresetLoaded(r, h, presetName, write) ==
    IF r.threw THEN SaveEnded("load", FALSE, h.cache, h.dirty, DiskOf(h))
    ELSE SavePreset(r, h, resolvePresetName(r.cache, presetName), write)

\* index.ts:564-578, called after the handler's refresh h.  write: how
\* mkdirSync and writeFileSync end.  The loadConfig at 565 reads tiers.json
\* again when the handler's own load failed.
saveActivePreset(h, presetName, write) ==
    SavePresetLoaded(loadConfig(h.cache, h.dirty, h.doc, stateFile), h, presetName, write)

\* saveActiveMode that only writes the override file: the cache entry is
\* not assigned to and the cache is not invalidated.
SaveModeWriteOnly(r, h, modeName, write) ==
    IF r.threw THEN SaveEnded("load", FALSE, h.cache, h.dirty, DiskOf(h))
    ELSE IF ~HasMode(r.cache, modeName)
    THEN SaveEnded("none", FALSE, r.cache, r.dirty, DiskOf(h))
    ELSE IF write # "ok"
    THEN SaveEnded("write", FALSE, r.cache, r.dirty,
                   FailedWrite(h, write, "activeMode", modeName))
    ELSE SaveEnded("none", TRUE, r.cache, r.dirty,
                   writeState(h.doc, stateFile, "activeMode", modeName))

\* index.ts:581-588: r is what loadConfig() did at 581.
SaveMode(r, h, modeName, write) ==
    IF r.threw THEN SaveEnded("load", FALSE, h.cache, h.dirty, DiskOf(h))
    ELSE IF ~HasMode(r.cache, modeName)
    THEN SaveEnded("none", FALSE, r.cache, r.dirty, DiskOf(h))
    ELSE IF write # "ok"
    THEN SaveEnded("write", FALSE, [r.cache EXCEPT !.activeMode = modeName], r.dirty,
                   FailedWrite(h, write, "activeMode", modeName))
    ELSE SaveEnded("none", TRUE, [r.cache EXCEPT !.activeMode = modeName], TRUE,
                   writeState(h.doc, stateFile, "activeMode", modeName))

\* index.ts:580-589
saveActiveMode(h, modeName, write) ==
    SaveMode(loadConfig(h.cache, h.dirty, h.doc, stateFile), h, modeName, write)

\* What a handler leaves: the cache, the closure's cfg, the files, the result.
Left(cache, dirty, c, disk, res) ==
    [cache |-> cache, dirty |-> dirty, cfg |-> c,
     doc |-> disk.doc, stateFile |-> disk.stateFile, res |-> res]

\* The two files as the handler's own load found them.
Disk == [doc |-> doc, stateFile |-> stateFile]

\* Kept with the cache invalidated on the way out.
KeptInvalidated(h, res) == Left(h.cache, TRUE, h.cfg, Disk, res)

\* The state a handler leaves when it called no save function: it wrote
\* nothing and read nothing a second time.
Kept(h, res) == Left(h.cache, h.dirty, h.cfg, Disk, res)

\* An exception left a save function called from a builder.  The closure's
\* cfg is the cache entry unless the handler's own load had failed.
Thrown(h, s) ==
    Left(s.cache, s.dirty, IF h.loadFailed THEN h.cfg ELSE s.cache, s,
         [kind |-> "throw", error |-> s.error])

\* index.ts:848-861: cache is the cache entry and final the closure's cfg
\* after the assignment at 848.
PresetSwitched(s, cache, final, resolvedPreset) ==
    Left(cache, s.dirty, final, s,
         [kind |-> "switched", name |-> resolvedPreset, saved |-> s.saved,
          models |-> ModelsOf(final, resolvedPreset)])

\* index.ts:847-848: s is what saveActivePreset did.  The closure's cfg is
\* the cache entry, the one object saveActivePreset assigned to, unless the
\* handler's own load had failed: then saveActivePreset loaded a new entry
\* and the assignment at 848 reaches the stale cfg alone.
PresetSaved(h, s, resolvedPreset) ==
    IF s.threw THEN Thrown(h, s)
    ELSE IF h.loadFailed
    THEN PresetSwitched(s, s.cache,
                        [h.cfg EXCEPT !.activePreset = resolvedPreset],
                        resolvedPreset)
    ELSE PresetSwitched(s, [s.cache EXCEPT !.activePreset = resolvedPreset],
                        [s.cache EXCEPT !.activePreset = resolvedPreset],
                        resolvedPreset)

\* index.ts:835-837: each tier with the last path segment of its model
ShortModelsOf(tiers) ==
    [i \in 1..Len(tiers) |->
        [tier |-> tiers[i].k, model |-> LastSegment(tiers[i].v.model)]]

\* index.ts:832-841
PresetList(c, names) ==
    [kind |-> "list",
     entries |-> [i \in 1..Len(names) |->
                     [name |-> names[i], active |-> names[i] = c.activePreset,
                      models |-> ShortModelsOf(Get(c.presets, names[i]).tiers)]]]

\* PresetResolved persisting the requested name before it tests the
\* resolution: an unknown name still reaches the override file.
PresetResolvedEager(h, requestedPreset, resolvedPreset, write) ==
    IF ~TruthyString(resolvedPreset)
    THEN Left(h.cache, h.dirty, h.cfg,
              writeState(h.doc, stateFile, "activePreset", requestedPreset),
              [kind |-> "unknown", requested |-> requestedPreset,
               available |-> Keys(h.cfg.presets)])
    ELSE PresetSaved(h, saveActivePreset(h, resolvedPreset, write), resolvedPreset)

\* index.ts:846-864: resolvedPreset is what resolvePresetName returned at 845
PresetResolved(h, requestedPreset, resolvedPreset, write) ==
    IF ~TruthyString(resolvedPreset)
    THEN Kept(h, [kind |-> "unknown", requested |-> requestedPreset,
                  available |-> Keys(h.cfg.presets)])
    ELSE PresetSaved(h, saveActivePreset(h, resolvedPreset, write), resolvedPreset)

\* index.ts:831-864: requestedPreset is args.trim()
PresetRequested(h, requestedPreset, write) ==
    IF requestedPreset = <<>>
    THEN Kept(h, PresetList(h.cfg, Keys(h.cfg.presets)))
    ELSE PresetResolved(h, requestedPreset,
                        resolvePresetName(h.cfg, requestedPreset), write)

\* index.ts:827-865 after the handler's refresh h
buildPresetOutput(h, args, write) == PresetRequested(h, Trim(args), write)

\* index.ts:806-817: the confirmation for the mode entry read at 806
ModeConfirmation(mode, requested, saved) ==
    IF mode.overrideRulesT = "string" /\ mode.overrideRules # <<>>
    THEN [kind |-> "throw", error |-> "TypeError"]
    ELSE [kind |-> "switched", name |-> requested, saved |-> saved,
          rules |-> IF mode.overrideRulesT = "array" THEN mode.overrideRules ELSE <<>>]

\* index.ts:805-817: s is what saveActiveMode did
ModeSaved(h, s, requested) ==
    IF s.threw THEN Thrown(h, s)
    ELSE Left(s.cache, s.dirty, IF h.loadFailed THEN h.cfg ELSE s.cache, s,
              IF HasOwn(h.cfg.modes, requested)
              THEN ModeConfirmation(Get(h.cfg.modes, requested), requested, s.saved)
              ELSE [kind |-> "switched", name |-> requested, saved |-> s.saved,
                    rules |-> <<>>])

\* index.ts:795-798
ModeList(names, currentMode) ==
    [kind |-> "list",
     entries |-> [i \in 1..Len(names) |->
                     [name |-> names[i], active |-> names[i] = currentMode]]]

\* index.ts:790
CurrentMode(c) ==
    IF TruthyString(c.activeMode) THEN c.activeMode ELSE <<"n","o","r","m","a","l">>

\* index.ts:793-820: requested is args.trim().toLowerCase()
ModeRequested(h, requested, write) ==
    IF requested = <<>>
    THEN Kept(h, ModeList(Keys(h.cfg.modes), CurrentMode(h.cfg)))
    ELSE IF ~Has(h.cfg.modes, requested)
    THEN Kept(h, [kind |-> "unknown", requested |-> requested,
                  available |-> Keys(h.cfg.modes)])
    ELSE ModeSaved(h, saveActiveMode(h, requested, write), requested)

\* index.ts:783-821 after the handler's refresh h
buildBudgetOutput(h, args, write) ==
    IF h.cfg.modesT # "object" \/ h.cfg.modes = <<>>
    THEN Kept(h, [kind |-> "nomodes"])
    ELSE ModeRequested(h, ToLowerCase(Trim(args)), write)

-----------------------------------------------------------------------------
\* The documents, override files and command arguments the model draws from.

sa == <<"a">>
sA == <<"A">>
sb == <<"b">>
sB == <<"B">>
sm == <<"m">>
sn == <<"n">>
sx == <<"x">>
sz == <<"z">>
constructor == <<"c","o","n","s","t","r","u","c","t","o","r">>
fast == <<"f","a","s","t">>
heavy == <<"h","e","a","v","y">>
G1 == <<"G","1">>
G2 == <<"G","2">>
R1 == <<"R","1">>
R2 == <<"R","2">>
prov == <<"p">>
prov2 == <<"q">>

Tier(model, whenToUse) ==
    [t |-> "object", modelT |-> "string", model |-> model,
     descriptionT |-> "string", description |-> <<"d">>,
     whenToUseT |-> "array", whenToUse |-> whenToUse,
     variant |-> Undefined, costRatioT |-> "undefined", costRatio |-> 0]

Preset(provider) ==
    [t |-> "object",
     tiers |-> << [k |-> fast,
                   v |-> Tier(provider \o <<"/">> \o provider \o <<"h">>, << <<"s">> >>)],
                  [k |-> heavy,
                   v |-> Tier(provider \o <<"/">> \o provider \o <<"o">>, <<>>)] >>]

\* A preset whose first tier has costRatio: null and whose second has 3.
PresetCosted(provider) ==
    [t |-> "object",
     tiers |-> << [k |-> fast,
                   v |-> [Tier(provider \o <<"/">> \o provider \o <<"h">>, << <<"s">> >>)
                             EXCEPT !.costRatioT = "null"]],
                  [k |-> heavy,
                   v |-> [Tier(provider \o <<"/">> \o provider \o <<"o">>, <<>>)
                             EXCEPT !.costRatioT = "number", !.costRatio = 3]] >>]

Mode(overrideRulesT, overrideRules) ==
    [t |-> "object", defaultTierT |-> "string", defaultTier |-> fast,
     descriptionT |-> "string", description |-> <<"d">>,
     overrideRulesT |-> overrideRulesT, overrideRules |-> overrideRules]

Order(names) == [t |-> "array", order |-> names]

NoFallback ==
    [globalT |-> "undefined", global |-> <<>>, presetsT |-> "undefined", presets |-> <<>>]

BaseDoc ==
    [file |-> "ok", rootT |-> "object",
     activePresetT |-> "string", activePreset |-> sa, activeMode |-> Undefined,
     presetsT |-> "object",
     presets |-> << [k |-> sa, v |-> Preset(sa)], [k |-> sb, v |-> Preset(sb)] >>,
     rulesT |-> "array", rules |-> <<G1, G2>>,
     defaultTierT |-> "string", defaultTier |-> fast,
     modesT |-> "undefined", modes |-> <<>>,
     taskPatternsT |-> "undefined", taskPatterns |-> <<>>,
     fallbackT |-> "undefined", fallback |-> NoFallback]

\* Keys that differ only by case, "A" first; two modes, one with override
\* rules; a global fallback map naming the active preset and a missing one.
DocCase ==
    [BaseDoc EXCEPT
        !.presets = << [k |-> sA, v |-> Preset(sA)], [k |-> sa, v |-> Preset(sa)],
                       [k |-> sb, v |-> Preset(sb)] >>,
        !.modesT = "object",
        !.modes = << [k |-> sm, v |-> Mode("array", <<R1, R2>>)],
                     [k |-> sn, v |-> Mode("undefined", <<>>)] >>,
        !.fallbackT = "object",
        !.fallback = [NoFallback EXCEPT
            !.globalT = "object",
            !.global = << [k |-> prov, v |-> Order(<<sa, sb, sx, sA>>)],
                          [k |-> prov2, v |-> Order(<<sa, sx>>)] >>]]

\* activePreset names no preset; the document itself carries an activeMode
\* key; the fallback list names a property every object inherits.
DocMissing ==
    [BaseDoc EXCEPT
        !.activePreset = sz,
        !.activeMode = sm,
        !.modesT = "object",
        !.modes = << [k |-> sm, v |-> Mode("array", <<R1>>)] >>,
        !.fallbackT = "object",
        !.fallback = [NoFallback EXCEPT
            !.globalT = "object",
            !.global = << [k |-> prov, v |-> Order(<<sa, constructor, sb>>)] >>]]

\* presets: {} passes the validator.
DocEmpty == [BaseDoc EXCEPT !.presets = <<>>]

\* readFileSync or JSON.parse throws.
DocUnreadable == [BaseDoc EXCEPT !.file = "unreadable"]

Docs == {DocCase, DocMissing, DocEmpty, DocUnreadable}

\* _cachedConfig = null
NullConfig == [BaseDoc EXCEPT !.file = "null"]

StateOf(preset, mode) == [t |-> "object", activePreset |-> preset, activeMode |-> mode]

AbsentFile == [t |-> "absent", activePreset |-> Undefined, activeMode |-> Undefined]

CorruptFile == [t |-> "corrupt", activePreset |-> Undefined, activeMode |-> Undefined]

InitStateFiles ==
    {AbsentFile, CorruptFile, StateOf(sB, sx), StateOf(sx, sm)}

PresetArgs == {<<>>, <<"﻿", "a", " ">>, sA, sB, sx}

BudgetArgs == {<<>>, <<"M", " ">>, sn, sx}

normal == <<"n","o","r","m","a","l">>

Patterns(list) == [t |-> "array", patterns |-> list]

\* taskPatterns with one tier that has phrases and one that has none; preset
\* "a" with cost ratios
DocTaxonomy ==
    [BaseDoc EXCEPT
        !.presets = << [k |-> sa, v |-> PresetCosted(sa)], [k |-> sb, v |-> Preset(sb)] >>,
        !.taskPatternsT = "object",
        !.taskPatterns = << [k |-> fast, v |-> Patterns(<< <<"f","i","n","d">>, <<"g","r","e","p">> >>)],
                            [k |-> heavy, v |-> Patterns(<<>>)] >>]

\* taskPatterns whose every list is empty
DocTaxonomyEmptyLists ==
    [BaseDoc EXCEPT
        !.taskPatternsT = "object",
        !.taskPatterns = << [k |-> fast, v |-> Patterns(<<>>)],
                            [k |-> heavy, v |-> Patterns(<<>>)] >>]

\* taskPatterns: {}
DocTaxonomyNoTier == [BaseDoc EXCEPT !.taskPatternsT = "object"]

\* A fallback map of its own for preset "a", of which "b" survives the
\* filter; preset "b" has an empty map of its own; the global map has a list
\* that is not an array.
DocFallbackOwn ==
    [BaseDoc EXCEPT
        !.fallbackT = "object",
        !.fallback =
            [globalT |-> "object",
             global |-> << [k |-> prov2, v |-> [t |-> "string", order |-> <<>>]],
                           [k |-> prov, v |-> Order(<<sb, sa>>)] >>,
             presetsT |-> "object",
             presets |-> << [k |-> sa, v |-> << [k |-> prov2, v |-> Order(<<sa, sb, sx>>)] >>],
                            [k |-> sb, v |-> <<>>] >>]]

\* A fallback map of its own for preset "a" of which nothing survives the
\* filter, beside a global map of which "b" would survive.
DocFallbackFiltered ==
    [BaseDoc EXCEPT
        !.fallbackT = "object",
        !.fallback =
            [globalT |-> "object",
             global |-> << [k |-> prov, v |-> Order(<<sb>>)] >>,
             presetsT |-> "object",
             presets |-> << [k |-> sa, v |-> << [k |-> prov2, v |-> Order(<<sa, sx>>)] >>] >>]]

\* Fallback maps for preset "b" only and no global map.
DocFallbackNoGlobal ==
    [BaseDoc EXCEPT
        !.fallbackT = "object",
        !.fallback =
            [globalT |-> "undefined", global |-> <<>>,
             presetsT |-> "object",
             presets |-> << [k |-> sb, v |-> << [k |-> prov, v |-> Order(<<sa>>)] >>] >>]]

\* A mode called "normal" with override rules, and a mode "m" whose
\* overrideRules is a string where an array is expected.
DocModes ==
    [BaseDoc EXCEPT
        !.modesT = "object",
        !.modes = << [k |-> normal, v |-> Mode("array", <<R1>>)],
                     [k |-> sm, v |-> Mode("string", R2)] >>]

\* Names outside Latin-1.  The lower case of "ΟΣ" ends in the final
\* sigma, that of "Σ" alone does not.  The overrideRules of mode "ω" is the
\* empty list.
DocGreek ==
    [BaseDoc EXCEPT
        !.presets = << [k |-> sa, v |-> Preset(sa)],
                       [k |-> <<"Ω">>, v |-> Preset(<<"Ω">>)],
                       [k |-> <<"Ο", "Σ">>, v |-> Preset(<<"Ο", "Σ">>)] >>,
        !.modesT = "object",
        !.modes = << [k |-> <<"ω">>, v |-> Mode("array", <<>>)] >>]

\* The documents of the wider specification: each one validates.
WideDocs ==
    {DocCase, DocMissing, DocEmpty, DocTaxonomy, DocTaxonomyEmptyLists,
     DocTaxonomyNoTier, DocFallbackOwn, DocFallbackFiltered, DocFallbackNoGlobal,
     DocModes, DocGreek}

PresetArgsWide ==
    PresetArgs \cup {constructor, <<"t","o","S","t","r","i","n","g">>, <<" ">>,
                      <<"﻿", "B", "\r", "\n", " ">>,
                      <<"ω">>, <<"ο", "ς">>, <<"ο", "σ">>}

BudgetArgsWide ==
    BudgetArgs \cup {constructor, normal, <<" ">>, <<" ", "Ω", "﻿">>}

\* No other process is writing the override file.
NoWriters == <<>>

-----------------------------------------------------------------------------
\* The behaviours

\* The plugin was constructed (index.ts:871-873): its loadConfig() returned,
\* so the document was loadable then.
Init ==
    /\ doc \in {d \in Docs : Loadable(d)}
    /\ docAuthored = doc
    /\ stateFile \in InitStateFiles
    /\ _cachedConfig = loadConfig(NullConfig, TRUE, doc, stateFile).cache
    /\ _configDirty = FALSE
    /\ cfg = _cachedConfig
    /\ activeTiers = getActiveTiers(cfg)
    /\ out = [op |-> "init", loadFailed |-> FALSE, readDisk |-> TRUE,
              after |-> "none", res |-> [kind |-> "none"]]
    /\ edited = FALSE
    /\ writers = NoWriters

\* Ghost: the command whose confirmed, saved switch was the operation just
\* before this one, with no edit of tiers.json since ("none": there was no
\* such switch).
LastSwitch ==
    IF out.res.kind = "switched" /\ out.res.saved /\ ~edited THEN out.op ELSE "none"

\* Ghost: what a compileProtocol call comes right after: a saved switch, or
\* another compileProtocol call with no edit of tiers.json in between.
Previous ==
    IF LastSwitch # "none" THEN LastSwitch
    ELSE IF out.op = "compile" /\ ~edited THEN "compile"
    ELSE "none"

\* experimental.chat.system.transform (index.ts:952-959): compileProtocol()
\* afterFailure is a ghost: the load of the operation before this one failed.
CompileProtocol ==
    \E h \in {Refresh} :
        /\ _cachedConfig' = h.cache
        /\ _configDirty' = h.dirty
        /\ cfg' = h.cfg
        /\ out' = [op |-> "compile", loadFailed |-> h.loadFailed,
                   readDisk |-> h.readDisk, after |-> Previous,
                   afterFailure |-> out.loadFailed,
                   res |-> buildDelegationProtocol(h.cfg)]
        /\ edited' = FALSE
        /\ writers' = writers
        /\ UNCHANGED <<doc, docAuthored, stateFile, activeTiers>>

\* command.execute.before with command "tiers" (index.ts:965-970)
CommandTiers ==
    \E h \in {Refresh} :
        /\ _cachedConfig' = h.cache
        /\ _configDirty' = h.dirty
        /\ cfg' = h.cfg
        /\ out' = [op |-> "tiers", loadFailed |-> h.loadFailed,
                   readDisk |-> h.readDisk, res |-> buildTiersOutput(h.cfg)]
        /\ edited' = FALSE
        /\ writers' = writers
        /\ UNCHANGED <<doc, docAuthored, stateFile, activeTiers>>

\* Leave with the agents following the switch: activeTiers is taken again
\* from the configuration the handler leaves.
LeaveRegistering(op, args, h, b) ==
    /\ _cachedConfig' = b.cache
    /\ _configDirty' = b.dirty
    /\ cfg' = b.cfg
    /\ doc' = b.doc
    /\ stateFile' = b.stateFile
    /\ out' = [op |-> op, args |-> args, loadFailed |-> h.loadFailed,
               readDisk |-> h.readDisk, res |-> b.res]
    /\ docAuthored' = IF b.doc = doc THEN doc ELSE h.doc
    /\ activeTiers' = getActiveTiers(b.cfg)
    /\ edited' = FALSE
    /\ writers' = writers

\* The handler ended and left b.
Leave(op, args, h, b) ==
    /\ _cachedConfig' = b.cache
    /\ _configDirty' = b.dirty
    /\ cfg' = b.cfg
    /\ doc' = b.doc
    /\ stateFile' = b.stateFile
    /\ out' = [op |-> op, args |-> args, loadFailed |-> h.loadFailed,
               readDisk |-> h.readDisk, res |-> b.res]
    /\ docAuthored' = IF b.doc = doc THEN doc ELSE h.doc
    /\ activeTiers' = activeTiers
    /\ edited' = FALSE
    /\ writers' = writers

\* What the handler's try { cfg = loadConfig() } catch {} leaves, with
\* tiers.json as the rest of the handler finds it.  When the load failed, the
\* save function's loadConfig (index.ts:565, 581) reads the file a second
\* time, and its author may have replaced it between the two reads.
Handlers ==
    IF Refresh.loadFailed
    THEN {[Refresh EXCEPT !.doc = d] : d \in {doc} \cup {e \in Docs : Loadable(e)}}
    ELSE {Refresh}

\* command.execute.before with command "preset" (index.ts:972-980); write is
\* how the write of the override file ends, should the handler reach one.
CommandPreset ==
    \E args \in PresetArgs :
        \E h \in Handlers :
            \E b \in {buildPresetOutput(h, args, write) : write \in WriteOutcomes} :
                Leave("preset", args, h, b)

\* command.execute.before with command "budget" (index.ts:982-990)
CommandBudget ==
    \E args \in BudgetArgs :
        \E h \in Handlers :
            \E b \in {buildBudgetOutput(h, args, write) : write \in WriteOutcomes} :
                Leave("budget", args, h, b)

\* The preset command with the wider arguments
CommandPresetWide ==
    \E args \in PresetArgsWide :
        \E h \in Handlers :
            \E b \in {buildPresetOutput(h, args, write) : write \in WriteOutcomes} :
                Leave("preset", args, h, b)

\* The budget command with the wider arguments
CommandBudgetWide ==
    \E args \in BudgetArgsWide :
        \E h \in Handlers :
            \E b \in {buildBudgetOutput(h, args, write) : write \in WriteOutcomes} :
                Leave("budget", args, h, b)

\* The author rewrites tiers.json, or the file becomes unreadable.
EditDocument ==
    \E d \in Docs \ {doc} :
        /\ doc' = d
        /\ docAuthored' = d
        /\ edited' = TRUE
        /\ writers' = writers
        /\ UNCHANGED <<stateFile, _cachedConfig, _configDirty, cfg, activeTiers, out>>

\* index.ts:882-904: one agent definition per tier of activeTiers.
\* Object.entries(undefined) throws when the plugin started with no preset.
registerAgents(tiers) ==
    IF tiers.t = "undefined" THEN [kind |-> "throw", error |-> "TypeError"]
    ELSE [kind |-> "agents",
          agents |-> [i \in 1..Len(tiers.tiers) |->
                         [name |-> tiers.tiers[i].k,
                          model |-> tiers.tiers[i].v.model,
                          description |-> tiers.tiers[i].v.description,
                          variant |-> tiers.tiers[i].v.variant]]]

\* The config hook (index.ts:879-947): the host asks for the agents.
ConfigHook ==
    /\ out' = [op |-> "config", loadFailed |-> FALSE, readDisk |-> FALSE,
               res |-> registerAgents(activeTiers)]
    /\ edited' = FALSE
    /\ writers' = writers
    /\ UNCHANGED <<doc, docAuthored, stateFile, _cachedConfig, _configDirty, cfg,
                   activeTiers>>

\* The host process is started again: the module is loaded afresh
\* (index.ts:396-397, cache null and dirty) and the plugin constructed
\* (871-873) from the two files as they are.  A document that does not load
\* makes the constructor throw: there is no plugin then.
Restart ==
    /\ Loadable(doc)
    /\ _cachedConfig' = loadConfig(NullConfig, TRUE, doc, stateFile).cache
    /\ _configDirty' = FALSE
    /\ cfg' = _cachedConfig'
    /\ activeTiers' = getActiveTiers(cfg')
    /\ out' = [op |-> "init", loadFailed |-> FALSE, readDisk |-> TRUE,
               after |-> LastSwitch, res |-> [kind |-> "none"]]
    /\ edited' = FALSE
    /\ writers' = writers
    /\ UNCHANGED <<doc, docAuthored, stateFile>>

Next ==
    \/ CompileProtocol
    \/ CommandTiers
    \/ CommandPreset
    \/ CommandBudget
    \/ ConfigHook
    \/ Restart
    \/ EditDocument

Spec == Init /\ [][Next]_vars

\* command.execute.before with a command that is none of tiers, preset and
\* budget (index.ts:964-991): none of the three tests holds, nothing is done.
CommandOther ==
    /\ out' = [op |-> "other", loadFailed |-> FALSE, readDisk |-> FALSE,
               res |-> [kind |-> "none"]]
    /\ edited' = FALSE
    /\ UNCHANGED <<doc, docAuthored, stateFile, _cachedConfig, _configDirty, cfg,
                   activeTiers, writers>>

\* The wider specification: more shapes of document and more arguments, the
\* document left alone once the plugin has started.
InitWide ==
    /\ doc \in {d \in WideDocs : Loadable(d)}
    /\ docAuthored = doc
    /\ stateFile \in InitStateFiles
    /\ _cachedConfig = loadConfig(NullConfig, TRUE, doc, stateFile).cache
    /\ _configDirty = FALSE
    /\ cfg = _cachedConfig
    /\ activeTiers = getActiveTiers(cfg)
    /\ out = [op |-> "init", loadFailed |-> FALSE, readDisk |-> TRUE,
              after |-> "none", res |-> [kind |-> "none"]]
    /\ edited = FALSE
    /\ writers = NoWriters

NextWide ==
    \/ CompileProtocol
    \/ CommandTiers
    \/ CommandPresetWide
    \/ CommandBudgetWide
    \/ CommandOther

SpecWide == InitWide /\ [][NextWide]_vars

-----------------------------------------------------------------------------
\* One process left alone: nothing but the plugin touches the two files, and
\* the file system lets every mkdirSync and writeFileSync succeed.

CommandPresetWritten ==
    \E args \in PresetArgsWide :
        \E h \in Handlers :
            Leave("preset", args, h, buildPresetOutput(h, args, "ok"))

CommandBudgetWritten ==
    \E args \in BudgetArgsWide :
        \E h \in Handlers :
            Leave("budget", args, h, buildBudgetOutput(h, args, "ok"))

NextAlone ==
    \/ CompileProtocol
    \/ CommandTiers
    \/ CommandPresetWritten
    \/ CommandBudgetWritten

SpecAlone == InitWide /\ [][NextAlone]_vars

-----------------------------------------------------------------------------
\* Two processes of one host, each with the plugin loaded, share the override
\* file.  One runs saveActivePreset, the other saveActiveMode; writeState
\* (index.ts:557-562) reads the file at 558 and writes it at 561, and
\* writeFileSync is itself two steps: it opens the file with O_TRUNC, which
\* empties it, and then writes its text from offset 0.  The other process may
\* run between any two of the three steps.

\* A process about to save: the key its patch sets and the value.  under: the
\* other process wrote the file while this one had it open.
Writer(key, value) ==
    [key |-> key, value |-> value, pc |-> "start",
     state |-> [activePreset |-> Undefined, activeMode |-> Undefined],
     cached |-> Undefined, dirty |-> FALSE,
     sawOther |-> FALSE, sawEmpty |-> FALSE, under |-> FALSE, last |-> FALSE]

Other(p) == 3 - p

\* index.ts:558: { ...readState(), ...patch } in process p
Merged(p) ==
    writeState(doc, stateFile, writers[p].key, writers[p].value).stateFile

\* The number of bytes of one entry of JSON.stringify(state, null, 2) in the
\* file (UTF-8): a line break, two spaces, the quoted key, a colon and a
\* space, the quoted value.  JSON.stringify writes a double quote, a
\* backslash, U+0008, tab, line feed, form feed and carriage return as two
\* characters and every other character below U+0020 as six; the characters
\* up to U+007F take one byte, those up to U+07FF two, the others three.
JsonEntryLen(key, value) ==
    LET Short ==
          {
            "\"","\\","\t","\n","\f","\r",""
          }
        Control ==
          {
            "","","","","","","","","","","","",
            "","","","","","","","","","","","",
            "",""
          }
        OneByte ==
          {
            " ","!","#","$","%","&","'","(",")","*","+",",",
            "-",".","/","0","1","2","3","4","5","6","7","8",
            "9",":",";","<","=",">","?","@","A","B","C","D",
            "E","F","G","H","I","J","K","L","M","N","O","P",
            "Q","R","S","T","U","V","W","X","Y","Z","[","]",
            "^","_","a","b","c","d","e","f","g","h","i","j",
            "k","l","m","n","o","p","q","r","s","t","u","v",
            "w","x","y","z","{","|","}","~",""
          }
        TwoBytes ==
          {
            "","","","","","","","","","","","",
            "","","","","","","","","","","","",
            "","","","","","","",""," ","¡","¢","£",
            "¤","¥","¦","§","¨","©","ª","«","¬","­","®","¯",
            "°","±","²","³","´","µ","¶","·","¸","¹","º","»",
            "¼","½","¾","¿","À","Á","Â","Ã","Ä","Å","Æ","Ç",
            "È","É","Ê","Ë","Ì","Í","Î","Ï","Ð","Ñ","Ò","Ó",
            "Ô","Õ","Ö","×","Ø","Ù","Ú","Û","Ü","Ý","Þ","ß",
            "à","á","â","ã","ä","å","æ","ç","è","é","ê","ë",
            "ì","í","î","ï","ð","ñ","ò","ó","ô","õ","ö","÷",
            "ø","ù","ú","û","ü","ý","þ","ÿ","ƀ","Ɓ","Ƃ","ƃ",
            "Ƅ","ƅ","Ɔ","Ƈ","ƈ","Ɖ","Ɗ","Ƌ","ƌ","ƍ","Ǝ","Ə",
            "Ɛ","Ƒ","ƒ","Ɠ","Ɣ","ƕ","Ɩ","Ɨ","Ƙ","ƙ","ƚ","ƛ",
            "Ɯ","Ɲ","ƞ","Ɵ","Ơ","ơ","Ƣ","ƣ","Ƥ","ƥ","Ʀ","Ƨ",
            "ƨ","Ʃ","ƪ","ƫ","Ƭ","ƭ","Ʈ","Ư","ư","Ʊ","Ʋ","Ƴ",
            "ƴ","Ƶ","ƶ","Ʒ","Ƹ","ƹ","ƺ","ƻ","Ƽ","ƽ","ƾ","ƿ",
            "ǀ","ǁ","ǂ","ǃ","Ǆ","ǅ","ǆ","Ǉ","ǈ","ǉ","Ǌ","ǋ",
            "ǌ","Ǎ","ǎ","Ǐ","ǐ","Ǒ","ǒ","Ǔ","ǔ","Ǖ","ǖ","Ǘ",
            "ǘ","Ǚ","ǚ","Ǜ","ǜ","ǝ","Ǟ","ǟ","Ǡ","ǡ","Ǣ","ǣ",
            "Ǥ","ǥ","Ǧ","ǧ","Ǩ","ǩ","Ǫ","ǫ","Ǭ","ǭ","Ǯ","ǯ",
            "ǰ","Ǳ","ǲ","ǳ","Ǵ","ǵ","Ƕ","Ƿ","Ǹ","ǹ","Ǻ","ǻ",
            "Ǽ","ǽ","Ǿ","ǿ","ʀ","ʁ","ʂ","ʃ","ʄ","ʅ","ʆ","ʇ",
            "ʈ","ʉ","ʊ","ʋ","ʌ","ʍ","ʎ","ʏ","ʐ","ʑ","ʒ","ʓ",
            "ʔ","ʕ","ʖ","ʗ","ʘ","ʙ","ʚ","ʛ","ʜ","ʝ","ʞ","ʟ",
            "ʠ","ʡ","ʢ","ʣ","ʤ","ʥ","ʦ","ʧ","ʨ","ʩ","ʪ","ʫ",
            "ʬ","ʭ","ʮ","ʯ","ʰ","ʱ","ʲ","ʳ","ʴ","ʵ","ʶ","ʷ",
            "ʸ","ʹ","ʺ","ʻ","ʼ","ʽ","ʾ","ʿ","ˀ","ˁ","˂","˃",
            "˄","˅","ˆ","ˇ","ˈ","ˉ","ˊ","ˋ","ˌ","ˍ","ˎ","ˏ",
            "ː","ˑ","˒","˓","˔","˕","˖","˗","˘","˙","˚","˛",
            "˜","˝","˞","˟","ˠ","ˡ","ˢ","ˣ","ˤ","˥","˦","˧",
            "˨","˩","˪","˫","ˬ","˭","ˮ","˯","˰","˱","˲","˳",
            "˴","˵","˶","˷","˸","˹","˺","˻","˼","˽","˾","˿",
            "΀","΁","΂","΃","΄","΅","Ά","·","Έ","Ή","Ί","΋",
            "Ό","΍","Ύ","Ώ","ΐ","Α","Β","Γ","Δ","Ε","Ζ","Η",
            "Θ","Ι","Κ","Λ","Μ","Ν","Ξ","Ο","Π","Ρ","΢","Σ",
            "Τ","Υ","Φ","Χ","Ψ","Ω","Ϊ","Ϋ","ά","έ","ή","ί",
            "ΰ","α","β","γ","δ","ε","ζ","η","θ","ι","κ","λ",
            "μ","ν","ξ","ο","π","ρ","ς","σ","τ","υ","φ","χ",
            "ψ","ω","ϊ","ϋ","ό","ύ","ώ","Ϗ","ϐ","ϑ","ϒ","ϓ",
            "ϔ","ϕ","ϖ","ϗ","Ϙ","ϙ","Ϛ","ϛ","Ϝ","ϝ","Ϟ","ϟ",
            "Ϡ","ϡ","Ϣ","ϣ","Ϥ","ϥ","Ϧ","ϧ","Ϩ","ϩ","Ϫ","ϫ",
            "Ϭ","ϭ","Ϯ","ϯ","ϰ","ϱ","ϲ","ϳ","ϴ","ϵ","϶","Ϸ",
            "ϸ","Ϲ","Ϻ","ϻ","ϼ","Ͻ","Ͼ","Ͽ","Ҁ","ҁ","҂","҃",
            "҄","҅","҆","҇","҈","҉","Ҋ","ҋ","Ҍ","ҍ","Ҏ","ҏ",
            "Ґ","ґ","Ғ","ғ","Ҕ","ҕ","Җ","җ","Ҙ","ҙ","Қ","қ",
            "Ҝ","ҝ","Ҟ","ҟ","Ҡ","ҡ","Ң","ң","Ҥ","ҥ","Ҧ","ҧ",
            "Ҩ","ҩ","Ҫ","ҫ","Ҭ","ҭ","Ү","ү","Ұ","ұ","Ҳ","ҳ",
            "Ҵ","ҵ","Ҷ","ҷ","Ҹ","ҹ","Һ","һ","Ҽ","ҽ","Ҿ","ҿ",
            "Ӏ","Ӂ","ӂ","Ӄ","ӄ","Ӆ","ӆ","Ӈ","ӈ","Ӊ","ӊ","Ӌ",
            "ӌ","Ӎ","ӎ","ӏ","Ӑ","ӑ","Ӓ","ӓ","Ӕ","ӕ","Ӗ","ӗ",
            "Ә","ә","Ӛ","ӛ","Ӝ","ӝ","Ӟ","ӟ","Ӡ","ӡ","Ӣ","ӣ",
            "Ӥ","ӥ","Ӧ","ӧ","Ө","ө","Ӫ","ӫ","Ӭ","ӭ","Ӯ","ӯ",
            "Ӱ","ӱ","Ӳ","ӳ","Ӵ","ӵ","Ӷ","ӷ","Ӹ","ӹ","Ӻ","ӻ",
            "Ӽ","ӽ","Ӿ","ӿ","ր","ց","ւ","փ","ք","օ","ֆ","և",
            "ֈ","։","֊","֋","֌","֍","֎","֏","֐","֑","֒","֓",
            "֔","֕","֖","֗","֘","֙","֚","֛","֜","֝","֞","֟",
            "֠","֡","֢","֣","֤","֥","֦","֧","֨","֩","֪","֫",
            "֬","֭","֮","֯","ְ","ֱ","ֲ","ֳ","ִ","ֵ","ֶ","ַ",
            "ָ","ֹ","ֺ","ֻ","ּ","ֽ","־","ֿ","׀","ׁ","ׂ","׃",
            "ׄ","ׅ","׆","ׇ","׈","׉","׊","׋","׌","׍","׎","׏",
            "א","ב","ג","ד","ה","ו","ז","ח","ט","י","ך","כ",
            "ל","ם","מ","ן","נ","ס","ע","ף","פ","ץ","צ","ק",
            "ר","ש","ת","׫","׬","׭","׮","ׯ","װ","ױ","ײ","׳",
            "״","׵","׶","׷","׸","׹","׺","׻","׼","׽","׾","׿",
            "ڀ","ځ","ڂ","ڃ","ڄ","څ","چ","ڇ","ڈ","ډ","ڊ","ڋ",
            "ڌ","ڍ","ڎ","ڏ","ڐ","ڑ","ڒ","ړ","ڔ","ڕ","ږ","ڗ",
            "ژ","ڙ","ښ","ڛ","ڜ","ڝ","ڞ","ڟ","ڠ","ڡ","ڢ","ڣ",
            "ڤ","ڥ","ڦ","ڧ","ڨ","ک","ڪ","ګ","ڬ","ڭ","ڮ","گ",
            "ڰ","ڱ","ڲ","ڳ","ڴ","ڵ","ڶ","ڷ","ڸ","ڹ","ں","ڻ",
            "ڼ","ڽ","ھ","ڿ","ۀ","ہ","ۂ","ۃ","ۄ","ۅ","ۆ","ۇ",
            "ۈ","ۉ","ۊ","ۋ","ی","ۍ","ێ","ۏ","ې","ۑ","ے","ۓ",
            "۔","ە","ۖ","ۗ","ۘ","ۙ","ۚ","ۛ","ۜ","۝","۞","۟",
            "۠","ۡ","ۢ","ۣ","ۤ","ۥ","ۦ","ۧ","ۨ","۩","۪","۫",
            "۬","ۭ","ۮ","ۯ","۰","۱","۲","۳","۴","۵","۶","۷",
            "۸","۹","ۺ","ۻ","ۼ","۽","۾","ۿ","ހ","ށ","ނ","ރ",
            "ބ","ޅ","ކ","އ","ވ","މ","ފ","ދ","ތ","ލ","ގ","ޏ",
            "ސ","ޑ","ޒ","ޓ","ޔ","ޕ","ޖ","ޗ","ޘ","ޙ","ޚ","ޛ",
            "ޜ","ޝ","ޞ","ޟ","ޠ","ޡ","ޢ","ޣ","ޤ","ޥ","ަ","ާ",
            "ި","ީ","ު","ޫ","ެ","ޭ","ޮ","ޯ","ް","ޱ","޲","޳",
            "޴","޵","޶","޷","޸","޹","޺","޻","޼","޽","޾","޿",
            "߀","߁","߂","߃","߄","߅","߆","߇","߈","߉","ߊ","ߋ",
            "ߌ","ߍ","ߎ","ߏ","ߐ","ߑ","ߒ","ߓ","ߔ","ߕ","ߖ","ߗ",
            "ߘ","ߙ","ߚ","ߛ","ߜ","ߝ","ߞ","ߟ","ߠ","ߡ","ߢ","ߣ",
            "ߤ","ߥ","ߦ","ߧ","ߨ","ߩ","ߪ","߫","߬","߭","߮","߯",
            "߰","߱","߲","߳","ߴ","ߵ","߶","߷","߸","߹","ߺ","߻",
            "߼","߽","߾","߿","U+0253","U+0254","U+0256","U+0257","U+0259","U+025B","U+025C","U+0260",
            "U+0261","U+0263","U+0264","U+0265","U+0266","U+0268","U+0269","U+026A","U+026C","U+026F","U+0272","U+0275",
            "U+037B","U+037C","U+037D"
          }
        CharLen(c) ==
            IF c \in Short THEN 2
            ELSE IF c \in Control THEN 6
            ELSE IF c \in OneByte THEN 1
            ELSE IF c \in TwoBytes THEN 2
            ELSE 3
        Count(s, n) == Cardinality({i \in 1..Len(s) : CharLen(s[i]) = n})
        TextLen(s) == Count(s, 1) + 2 * Count(s, 2) + 3 * Count(s, 3) + 6 * Count(s, 6)
    IN  IF value = Undefined THEN 0 ELSE TextLen(key) + TextLen(value) + 9

\* The number of keys JSON.stringify writes: those with a defined value.
JsonKeys(state) ==
    (IF state.activePreset = Undefined THEN 0 ELSE 1)
    + (IF state.activeMode = Undefined THEN 0 ELSE 1)

\* index.ts:561: the number of bytes of JSON.stringify(state, null, 2) + "\n"
JsonLen(state) ==
    IF JsonKeys(state) = 0 THEN 3
    ELSE 3 + JsonKeys(state)
           + JsonEntryLen(<<"a","c","t","i","v","e","P","r","e","s","e","t">>, state.activePreset)
           + JsonEntryLen(<<"a","c","t","i","v","e","M","o","d","e">>, state.activeMode)

\* The file after process p wrote its text from offset 0.  When the other
\* process wrote while p had the file open, p's text lands on the other's
\* text: a shorter text leaves the tail of the longer one behind it, which
\* JSON.parse rejects unless that tail is the final line break alone.
Written(p) ==
    IF writers[p].under /\ JsonLen(writers[p].state) + 1 < JsonLen(readState(stateFile))
    THEN CorruptFile
    ELSE [t |-> "object",
          activePreset |-> writers[p].state.activePreset,
          activeMode |-> writers[p].state.activeMode]

InitShared ==
    /\ doc = DocCase
    /\ docAuthored = doc
    /\ stateFile \in InitStateFiles \cup {StateOf(sa, sn)}
    /\ _cachedConfig = loadConfig(NullConfig, TRUE, doc, stateFile).cache
    /\ _configDirty = FALSE
    /\ cfg = _cachedConfig
    /\ activeTiers = getActiveTiers(cfg)
    /\ out = [op |-> "init", loadFailed |-> FALSE, readDisk |-> TRUE,
              after |-> "none", res |-> [kind |-> "none"]]
    /\ edited = FALSE
    /\ writers \in { << Writer("activePreset", preset), Writer("activeMode", mode) >> :
                        preset \in {sA, sb}, mode \in {sm, sn} }

\* Process p assigns to its cache entry (index.ts:571, 586) and, in
\* writeState, reads the file and merges its patch (558).
WriterMerge(p) ==
    /\ writers[p].pc = "start"
    /\ writers' = [writers EXCEPT
                      ![p].pc = "read",
                      ![p].state = [activePreset |-> Merged(p).activePreset,
                                    activeMode |-> Merged(p).activeMode],
                      ![p].cached = writers[p].value,
                      ![p].sawOther = writers[Other(p)].pc = "done",
                      ![p].sawEmpty = writers[Other(p)].pc = "open"]
    /\ UNCHANGED <<doc, docAuthored, stateFile, _cachedConfig, _configDirty, cfg,
                   activeTiers, out, edited>>

\* writeFileSync in process p opens the file (index.ts:561): O_TRUNC leaves
\* it with 0 bytes.
WriterOpen(p) ==
    /\ writers[p].pc = "read"
    /\ stateFile' = EmptyFile
    /\ writers' = [writers EXCEPT ![p].pc = "open"]
    /\ UNCHANGED <<doc, docAuthored, _cachedConfig, _configDirty, cfg,
                   activeTiers, out, edited>>

\* writeFileSync in process p writes what it merged (index.ts:561) and the
\* process invalidates its cache (577, 588).
WriterWrite(p) ==
    /\ writers[p].pc = "open"
    /\ stateFile' = Written(p)
    /\ writers' = [writers EXCEPT
                      ![p].pc = "done", ![p].dirty = TRUE, ![p].last = TRUE,
                      ![Other(p)].last = FALSE,
                      ![Other(p)].under = writers[Other(p)].pc = "open"]
    /\ UNCHANGED <<doc, docAuthored, _cachedConfig, _configDirty, cfg,
                   activeTiers, out, edited>>

NextShared ==
    \/ \E p \in 1..2 : WriterMerge(p)
    \/ \E p \in 1..2 : WriterOpen(p)
    \/ \E p \in 1..2 : WriterWrite(p)

SpecShared == InitShared /\ [][NextShared]_vars

-----------------------------------------------------------------------------
\* The validator's specification: decoded documents of every shape the
\* validator tells apart, with one defect or several, handed to the plugin's
\* constructor.

TierOk == Tier(<<"p", "/", "m">>, <<>>)

\* typeof "string": the test at 451 throws
TierString ==
    [TierOk EXCEPT !.t = "string", !.modelT = "undefined", !.model = Undefined,
                   !.descriptionT = "undefined", !.description = Undefined,
                   !.whenToUseT = "undefined"]

\* a tier that is an array: the test at 451 lets it through
TierArray == [TierString EXCEPT !.t = "array"]

TierNoModel == [TierOk EXCEPT !.model = <<>>]

\* two defects in one tier: description and whenToUse
TierBadDescriptionWhenToUse ==
    [TierOk EXCEPT !.descriptionT = "number", !.whenToUseT = "string"]

TierShapes == {TierOk, TierString, TierArray, TierNoModel, TierBadDescriptionWhenToUse}

\* what the first preset, "a", may be
FirstPresetShapes ==
    { [t |-> "string", tiers |-> <<>>] } \cup
    { [t |-> "object", tiers |-> << [k |-> fast, v |-> t1], [k |-> heavy, v |-> t2] >>] :
          t1 \in TierShapes, t2 \in TierShapes }

\* what the second preset, "b", may be
SecondPresetShapes ==
    { Preset(sb), [t |-> "array", tiers |-> <<>>],
      [t |-> "object", tiers |-> << [k |-> fast, v |-> TierNoModel] >>] }

\* obj.presets with its tag
RawPresets ==
    { [T |-> "array", v |-> <<>>], [T |-> "object", v |-> <<>>] } \cup
    { [T |-> "object", v |-> << [k |-> sa, v |-> p1], [k |-> sb, v |-> p2] >>] :
          p1 \in FirstPresetShapes, p2 \in SecondPresetShapes }

\* obj.activePreset with its tag
RawActivePresets ==
    { [T |-> "string", v |-> sa], [T |-> "string", v |-> <<>>],
      [T |-> "undefined", v |-> Undefined] }

ModeString ==
    [t |-> "string", defaultTierT |-> "undefined", defaultTier |-> Undefined,
     descriptionT |-> "undefined", description |-> Undefined,
     overrideRulesT |-> "undefined", overrideRules |-> <<>>]

\* a mode that is an array: the test at 481 lets it through
ModeArray == [ModeString EXCEPT !.t = "array"]

ModeBadDefaultTier == [Mode("undefined", <<>>) EXCEPT !.defaultTierT = "undefined"]

ModeBadDescription == [Mode("undefined", <<>>) EXCEPT !.descriptionT = "number"]

\* obj.modes with its tag
RawModes ==
    { [T |-> "undefined", v |-> <<>>], [T |-> "array", v |-> <<>>],
      [T |-> "object", v |-> << [k |-> sm, v |-> Mode("array", <<R1>>)] >>],
      [T |-> "object", v |-> << [k |-> sm, v |-> ModeArray] >>],
      [T |-> "object", v |-> << [k |-> sm, v |-> ModeBadDescription],
                                [k |-> sn, v |-> ModeString] >>],
      [T |-> "object", v |-> << [k |-> sm, v |-> Mode("undefined", <<>>)],
                                [k |-> sn, v |-> ModeBadDefaultTier] >>] }

\* obj.taskPatterns with its tag
RawTaskPatterns ==
    { [T |-> "undefined", v |-> <<>>], [T |-> "null", v |-> <<>>],
      [T |-> "object", v |-> << [k |-> fast, v |-> Patterns(<< <<"s">> >>)] >>],
      [T |-> "object", v |-> << [k |-> fast, v |-> Patterns(<<>>)],
                                [k |-> heavy, v |-> [t |-> "string", patterns |-> <<>>]] >>] }

RawDoc(ap, pr, rulesT, defaultTierT, mo, tp) ==
    [BaseDoc EXCEPT
        !.activePresetT = ap.T, !.activePreset = ap.v,
        !.presetsT = pr.T, !.presets = pr.v,
        !.rulesT = rulesT, !.rules = IF rulesT = "array" THEN <<G1>> ELSE <<>>,
        !.defaultTierT = defaultTierT,
        !.defaultTier = IF defaultTierT = "string" THEN fast ELSE Undefined,
        !.modesT = mo.T, !.modes = mo.v,
        !.taskPatternsT = tp.T, !.taskPatterns = tp.v]

\* A root that is not a plain object has none of the fields.
RawRoot(rootT) ==
    [RawDoc([T |-> "undefined", v |-> Undefined], [T |-> "undefined", v |-> <<>>],
            "undefined", "undefined",
            [T |-> "undefined", v |-> <<>>], [T |-> "undefined", v |-> <<>>])
     EXCEPT !.rootT = rootT]

RawDocs ==
    { RawRoot("null"), RawRoot("string"), RawRoot("array") } \cup
    { RawDoc(ap, pr, rulesT, defaultTierT, mo, tp) :
          ap \in RawActivePresets, pr \in RawPresets,
          rulesT \in {"array", "string"}, defaultTierT \in {"string", "undefined"},
          mo \in RawModes, tp \in RawTaskPatterns }

\* The plugin is about to be constructed on some document.
InitValidate ==
    /\ doc \in RawDocs
    /\ docAuthored = doc
    /\ stateFile = AbsentFile
    /\ _cachedConfig = NullConfig
    /\ _configDirty = TRUE
    /\ cfg = NullConfig
    /\ activeTiers = [t |-> "undefined", tiers |-> <<>>]
    /\ out = [op |-> "boot", res |-> [kind |-> "none"]]
    /\ edited = FALSE
    /\ writers = NoWriters

\* index.ts:871-873: the constructor's loadConfig() validates the document;
\* what the validator throws ends the construction.
Construct ==
    /\ out.op = "boot"
    /\ \E r \in {loadConfig(_cachedConfig, _configDirty, doc, stateFile)} :
          /\ _cachedConfig' = r.cache
          /\ _configDirty' = r.dirty
          /\ cfg' = r.cache
          /\ activeTiers' = IF r.threw THEN activeTiers ELSE getActiveTiers(r.cache)
          /\ out' = [op |-> "init", loadFailed |-> r.threw, readDisk |-> r.readDisk,
                     after |-> "none",
                     res |-> IF r.threw
                             THEN [kind |-> "throw", error |-> "load",
                                   thrown |-> validateConfig(doc)]
                             ELSE [kind |-> "none"]]
    /\ UNCHANGED <<doc, docAuthored, stateFile, edited, writers>>

NextValidate == Construct

SpecValidate == InitValidate /\ [][NextValidate]_vars

-----------------------------------------------------------------------------
\* Properties

\* The document d defines the name a switch command confirmed.
Defines(d, op, name) ==
    IF op = "preset" THEN HasOwn(d.presets, name)
    ELSE d.modesT = "object" /\ HasOwn(d.modes, name)

\* The compiled text res names the preset and shows its tiers as c has them.
RendersPreset(res, c, name) ==
    /\ res.kind = "text"
    /\ res.preset = name
    /\ HasOwn(c.presets, name)
    /\ Len(res.tierSummary) = Len(Get(c.presets, name).tiers)
    /\ \A i \in 1..Len(res.tierSummary) :
          /\ res.tierSummary[i].name = Get(c.presets, name).tiers[i].k
          /\ res.tierSummary[i].shortModel
                = LastSegment(Get(c.presets, name).tiers[i].v.model)

\* The rule block is exactly the list rules, numbered from 1.
RuleBlockIs(res, rules) ==
    /\ Len(res.rules) = Len(rules)
    /\ \A i \in 1..Len(rules) : res.rules[i].n = i /\ res.rules[i].rule = rules[i]

\* The compiled text res has the mode's line and the mode's rules as c has them.
RendersMode(res, c, name) ==
    /\ res.kind = "text"
    /\ res.modeLine = <<name>>
    /\ c.modesT = "object" /\ HasOwn(c.modes, name)
    /\ IF Get(c.modes, name).overrideRulesT = "array"
          /\ Get(c.modes, name).overrideRules # <<>>
       THEN RuleBlockIs(res, Get(c.modes, name).overrideRules)
       ELSE RuleBlockIs(res, c.rules)

\* A compileProtocol step right after a confirmed, saved switch renders what
\* was switched to.
RendersSwitch ==
    IF out.op = "preset" THEN RendersPreset(out'.res, cfg', out.res.name)
    ELSE RendersMode(out'.res, cfg', out.res.name)

\* C1 as stated: after a preset or mode switch that succeeds, the very next
\* compileProtocol call renders the newly selected preset's tiers or the newly
\* selected mode's line and rules.
C1_SwitchThenCompile ==
    [][(LastSwitch # "none" /\ CompileProtocol) => RendersSwitch]_vars

\* C1 amended: the same, provided tiers.json as it is on disk at that call
\* still defines the selected preset or mode, or cannot be loaded at all (the
\* last-known configuration, already switched, is then rendered).
C1_SwitchThenCompileSameDocument ==
    [][(/\ LastSwitch # "none"
        /\ CompileProtocol
        /\ Loadable(doc) => Defines(doc, out.op, out.res.name))
       => RendersSwitch]_vars

\* C1 witness: a compileProtocol right after a saved switch to preset "A"
\* rendered "A", which only the override file selects.
C1_Witness ==
    /\ out.op = "compile" /\ out.after = "preset"
    /\ out.res.kind = "text" /\ out.res.preset = sA
    /\ stateFile.activePreset = sA /\ doc.activePreset # sA

\* C1 witness for a mode switch
C1_WitnessMode ==
    /\ out.op = "compile" /\ out.after = "budget"
    /\ out.res.kind = "text" /\ out.res.modeLine = <<sm>>

\* The step is one of the named operation: every operation names itself in
\* out and clears edited, and an edit of tiers.json sets edited.
StepOf(op) == out'.op = op /\ ~edited'

\* The preset command was asked for a name that does not resolve in the
\* configuration it worked on.
UnresolvedPreset ==
    /\ StepOf("preset")
    /\ Trim(out'.args) # <<>>
    /\ ~TruthyString(resolvePresetName(cfg', Trim(out'.args)))

\* The budget command was asked for a name that is no configured mode.
UnresolvedMode ==
    /\ StepOf("budget")
    /\ ToLowerCase(Trim(out'.args)) # <<>>
    /\ ~HasMode(cfg', ToLowerCase(Trim(out'.args)))

\* The modes of c, none when the key is absent
ModesOf(c) == IF c.modesT = "object" THEN c.modes ELSE <<>>

\* C2 as stated: for a requested name that does not resolve, the preset
\* command and the budget command leave the override file, the cached
\* configuration and the dirty flag unchanged and return an "Unknown"
\* message listing every configured name.
C2_UnknownChangesNothing ==
    [][(UnresolvedPreset \/ UnresolvedMode) =>
          /\ stateFile' = stateFile
          /\ _cachedConfig' = _cachedConfig
          /\ _configDirty' = _configDirty
          /\ out'.res.kind = "unknown"
          /\ out'.res.available = IF out'.op = "preset" THEN Keys(cfg'.presets)
                                  ELSE Keys(ModesOf(cfg'))]_vars

\* C2 amended: such a command leaves both files unchanged and never marks the
\* cache dirty; the cache is left as the command's own initial refresh leaves
\* it: untouched when it was clean, reloaded from disk and marked clean when
\* it was dirty and the document loads, untouched and dirty when it does not.
\* The preset command returns "Unknown preset" with every preset name; the
\* budget command returns "Unknown mode" with every mode name when a mode is
\* configured, and the fixed no-modes message otherwise.
C2_UnknownWritesNothing ==
    [][(UnresolvedPreset \/ UnresolvedMode) =>
          /\ stateFile' = stateFile
          /\ doc' = doc
          /\ ~_configDirty => (_cachedConfig' = _cachedConfig /\ ~_configDirty')
          /\ (_configDirty /\ Loadable(doc)) =>
                (_cachedConfig' = ApplyState(doc, stateFile) /\ ~_configDirty')
          /\ (_configDirty /\ ~Loadable(doc)) =>
                (_cachedConfig' = _cachedConfig /\ _configDirty')
          /\ IF out'.op = "budget" /\ ModesOf(cfg') = <<>>
             THEN out'.res.kind = "nomodes"
             ELSE /\ out'.res.kind = "unknown"
                  /\ out'.res.available = IF out'.op = "preset" THEN Keys(cfg'.presets)
                                          ELSE Keys(ModesOf(cfg'))]_vars

\* C2 witness: "preset x" answered "Unknown preset" with the three names
\* while an override file existed.
C2_Witness ==
    /\ out.op = "preset" /\ out.res.kind = "unknown"
    /\ out.res.requested = sx /\ out.res.available = <<sA, sa, sb>>
    /\ stateFile.t = "object"

\* The configuration a full load of the two files gives: the document with
\* the override file's preset, when it resolves, and mode, when configured.
FreshLoad == ApplyState(doc, stateFile)

\* The step is a compileProtocol call or a tiers command: each does one get
\* of the cache and renders what it got.
GetStep == StepOf("compile") \/ StepOf("tiers")

\* C3: at start the empty cache was filled from the files.  At each get, if
\* the cache has an entry and is clean, the entry is returned as it is and no
\* file is read; if it is dirty, the files are read: when the document loads
\* the cache becomes the full load and only then clean, and when it does not
\* the cache is left as it was, still dirty.
C3_GetDiscipline ==
    /\ (_cachedConfig = FreshLoad /\ ~_configDirty)
    /\ [][GetStep =>
            /\ (Cached(_cachedConfig) /\ ~_configDirty) =>
                  /\ ~out'.readDisk /\ ~out'.loadFailed
                  /\ _cachedConfig' = _cachedConfig
                  /\ cfg' = _cachedConfig
                  /\ ~_configDirty'
            /\ (~Cached(_cachedConfig) \/ _configDirty) =>
                  /\ out'.readDisk
                  /\ IF Loadable(doc)
                     THEN /\ ~out'.loadFailed
                          /\ _cachedConfig' = FreshLoad
                          /\ cfg' = FreshLoad
                          /\ ~_configDirty'
                     ELSE /\ out'.loadFailed
                          /\ _cachedConfig' = _cachedConfig
                          /\ _configDirty' = _configDirty]_vars

\* C3 witness: a compileProtocol call answered from the clean cache, without
\* reading, while the files on disk would load to something else.
C3_Witness ==
    /\ out.op = "compile" /\ ~out.readDisk /\ ~_configDirty
    /\ Loadable(doc) /\ _cachedConfig # FreshLoad

\* C3, the dirty case happens: a compileProtocol call right after a saved
\* switch read the files and left the cache clean.
C3_WitnessDirty ==
    /\ out.op = "compile" /\ out.after \in {"preset", "budget"} /\ out.readDisk
    /\ ~out.loadFailed /\ ~_configDirty

\* C4: whatever operations ran, tiers.json on disk is what its author last
\* wrote; no operation of the plugin changes it.
C4_DocumentNeverWritten == doc = docAuthored

\* C4 witness: a preset switch was persisted in the override file and the
\* document still names another active preset.
C4_Witness ==
    /\ out.op = "preset" /\ out.res.kind = "switched" /\ out.res.saved
    /\ stateFile.t = "object" /\ stateFile.activePreset = out.res.name
    /\ doc.activePreset # out.res.name /\ doc = docAuthored

\* C5 as stated: an operation whose refresh failed, because the document
\* cannot be read or does not validate, while a configuration was loaded
\* before, returns its text; no exception reaches the host.
C5_LoadFailureNeverThrows ==
    (out.op \in {"compile", "tiers", "preset", "budget"} /\ out.loadFailed)
        => out.res.kind # "throw"

\* The active mode of c as the compiler sees it: a configured mode named by
\* c.activeMode.
ActiveModeOf(c) ==
    IF c.modesT = "object" /\ TruthyString(c.activeMode) /\ HasOwn(c.modes, c.activeMode)
    THEN << Get(c.modes, c.activeMode) >>
    ELSE <<>>

\* The elements of a sequence
Range(s) == {s[i] : i \in 1..Len(s)}

\* The rules of a rendered rule block
BlockRules(res) == {res.rules[i].rule : i \in 1..Len(res.rules)}

\* C6: in every compiled text, when the active mode has a non-empty
\* overrideRules list the rule block is exactly that list numbered 1..n and
\* has no global rule; otherwise (no active mode, a mode without
\* overrideRules, a mode whose overrideRules is the empty list) it is exactly
\* the global rules numbered 1..n.
C6_OverridePrecedence ==
    (out.op = "compile" /\ out.res.kind = "text") =>
        IF /\ ActiveModeOf(cfg) # <<>>
           /\ ActiveModeOf(cfg)[1].overrideRulesT = "array"
           /\ ActiveModeOf(cfg)[1].overrideRules # <<>>
        THEN /\ RuleBlockIs(out.res, ActiveModeOf(cfg)[1].overrideRules)
             /\ BlockRules(out.res) \cap Range(cfg.rules) = {}
        ELSE RuleBlockIs(out.res, cfg.rules)

\* C6 witness: with mode "m" active the compiled rule block is 1. R1, 2. R2
\* while the global rules are G1, G2.
C6_Witness ==
    /\ out.op = "compile" /\ out.res.kind = "text"
    /\ out.res.modeLine = <<sm>>
    /\ out.res.rules = << [n |-> 1, rule |-> R1], [n |-> 2, rule |-> R2] >>
    /\ cfg.rules = <<G1, G2>>

\* C6 witness: with mode "ω" active, whose overrideRules is the empty list,
\* the compiled rule block is 1. G1, 2. G2.
C6_WitnessEmpty ==
    /\ out.op = "compile" /\ out.res.kind = "text"
    /\ out.res.modeLine = << <<"ω">> >>
    /\ ActiveModeOf(cfg) # <<>>
    /\ ActiveModeOf(cfg)[1].overrideRulesT = "array"
    /\ ActiveModeOf(cfg)[1].overrideRules = <<>>
    /\ cfg.rules = <<G1, G2>>
    /\ out.res.rules = << [n |-> 1, rule |-> G1], [n |-> 2, rule |-> G2] >>

\* C6 witness: with mode "n" active, which has no overrideRules, the compiled
\* rule block is 1. G1, 2. G2.
C6_WitnessAbsent ==
    /\ out.op = "compile" /\ out.res.kind = "text"
    /\ out.res.modeLine = <<sn>>
    /\ ActiveModeOf(cfg) # <<>>
    /\ ActiveModeOf(cfg)[1].overrideRulesT = "undefined"
    /\ out.res.rules = << [n |-> 1, rule |-> G1], [n |-> 2, rule |-> G2] >>

\* C6 witness: with no mode active the compiled rule block is 1. G1, 2. G2.
C6_WitnessNoMode ==
    /\ out.op = "compile" /\ out.res.kind = "text"
    /\ out.res.modeLine = <<>>
    /\ ActiveModeOf(cfg) = <<>>
    /\ out.res.rules = << [n |-> 1, rule |-> G1], [n |-> 2, rule |-> G2] >>

\* The preset whose tiers the protocol renders as active: the active preset
\* when it is a key, the first preset otherwise.
RenderedPreset(c) ==
    IF HasOwn(c.presets, c.activePreset) THEN c.activePreset ELSE c.presets[1].k

\* The configured fallback map the compiler reads for c
FallbackMap(c) ==
    IF c.fallbackT # "object" THEN <<>>
    ELSE IF /\ c.fallback.presetsT = "object"
            /\ HasOwn(c.fallback.presets, c.activePreset)
            /\ Get(c.fallback.presets, c.activePreset) # <<>>
    THEN Get(c.fallback.presets, c.activePreset)
    ELSE IF c.fallback.globalT = "object" THEN c.fallback.global
    ELSE <<>>

\* s is t with some elements left out, the others in t's order
RECURSIVE IsSubSeq(_, _)
IsSubSeq(s, t) ==
    IF s = <<>> THEN TRUE
    ELSE IF t = <<>> THEN FALSE
    ELSE IF s[1] = t[1] THEN IsSubSeq(Tail(s), Tail(t))
    ELSE IsSubSeq(s, Tail(t))

\* C7 as stated: in every compiled text, every name in the fallback block is a
\* key of presets and is not the preset whose tiers are rendered as active;
\* each provider's names keep their configured order, and no provider has an
\* empty list.
C7_FallbackNamesValid ==
    (out.op = "compile" /\ out.res.kind = "text") =>
        \A i \in 1..Len(out.res.fallback) :
            /\ out.res.fallback[i].order # <<>>
            /\ \A name \in Range(out.res.fallback[i].order) :
                  /\ HasOwn(cfg.presets, name)
                  /\ name # RenderedPreset(cfg)
            /\ \E j \in 1..Len(FallbackMap(cfg)) :
                  /\ FallbackMap(cfg)[j].k = out.res.fallback[i].provider
                  /\ IsSubSeq(out.res.fallback[i].order, FallbackMap(cfg)[j].v.order)

\* C8: a requested name that is a key of presets resolves to that same key,
\* in the loaded configuration and in the document on disk, whatever other
\* keys equal it up to letter case; and a preset command given a key never
\* answers for another preset.
C8_ExactMatchWins ==
    /\ \A name \in Range(Keys(cfg.presets)) : resolvePresetName(cfg, name) = name
    /\ \A name \in Range(Keys(doc.presets)) : resolvePresetName(doc, name) = name
    /\ (/\ out.op = "preset"
        /\ out.res.kind \in {"switched", "unknown"}
        /\ HasOwn(cfg.presets, Trim(out.args)))
          => (out.res.kind = "switched" /\ out.res.name = Trim(out.args))

\* C8 witness: "preset a" switched to "a" in a document whose keys are "A",
\* "a", "b" in that order.
C8_Witness ==
    /\ out.op = "preset" /\ out.res.kind = "switched"
    /\ Trim(out.args) = sa /\ out.res.name = sa
    /\ Keys(cfg.presets) = <<sA, sa, sb>>
    /\ cfg.activePreset = sa

\* The active preset a load of the two files should give: the override file's
\* name resolved against the document when that succeeds, else the document's.
EffectivePreset ==
    IF /\ TruthyString(readState(stateFile).activePreset)
       /\ TruthyString(resolvePresetName(doc, readState(stateFile).activePreset))
    THEN resolvePresetName(doc, readState(stateFile).activePreset)
    ELSE doc.activePreset

\* The tiers a text shows, by name
ShownTiers(res) ==
    IF out'.op = "compile"
    THEN [i \in 1..Len(res.tierSummary) |-> res.tierSummary[i].name]
    ELSE [i \in 1..Len(res.tiers) |-> res.tiers[i].name]

\* The models a text shows: the compiler shows the last path segment.
ShownModels(res) ==
    IF out'.op = "compile"
    THEN [i \in 1..Len(res.tierSummary) |-> res.tierSummary[i].shortModel]
    ELSE [i \in 1..Len(res.tiers) |-> res.tiers[i].model]

\* The models of the tiers as a text of the step shows them
ModelsShownFor(tiers) ==
    [i \in 1..Len(tiers) |->
        IF out'.op = "compile" THEN LastSegment(tiers[i].v.model) ELSE tiers[i].v.model]

\* C9 as stated: a get that loads the files makes the active preset the
\* override file's name resolved against the document, else the document's;
\* and when the active preset is not a key of presets, compileProtocol and the
\* tiers report return their text with the first preset's tiers.
C9_EffectivePresetAndFirstPreset ==
    [][GetStep =>
          /\ (out'.readDisk /\ ~out'.loadFailed) => cfg'.activePreset = EffectivePreset
          /\ ~HasOwn(cfg'.presets, cfg'.activePreset) =>
                /\ out'.res.kind = "text"
                /\ cfg'.presets # <<>>
                /\ ShownTiers(out'.res) = Keys(cfg'.presets[1].v.tiers)
                /\ ShownModels(out'.res) = ModelsShownFor(cfg'.presets[1].v.tiers)]_vars

\* The override file names no mode that the document configures.
NoPersistedMode ==
    \/ ~TruthyString(readState(stateFile).activeMode)
    \/ ~(doc.modesT = "object" /\ HasOwn(doc.modes, readState(stateFile).activeMode))

\* C10 as stated: when the override file has no activeMode, or one that is
\* not a configured mode, the loaded configuration has no active mode whatever
\* the document contains: a text compiled from it has no active-mode line and
\* its rule block is the global rules.
C10_NoModeWithoutPersistedMode ==
    (/\ out.op = "compile" /\ ~edited /\ ~out.loadFailed
     /\ ~_configDirty /\ _cachedConfig = FreshLoad
     /\ NoPersistedMode)
        => /\ ~TruthyString(cfg.activeMode)
           /\ out.res.kind = "text" =>
                 (out.res.modeLine = <<>> /\ RuleBlockIs(out.res, cfg.rules))

\* The step is the named command, which confirmed a switch and persisted it.
SavedSwitch(op) == StepOf(op) /\ out'.res.kind = "switched" /\ out'.res.saved

\* C11: a persisted preset switch leaves the override file with the switched
\* preset (the one saveActivePreset assigned to the cache entry, which is the
\* confirmed one whenever the handler's own load succeeded) and the
\* activeMode that was readable in it before; a persisted mode
\* switch leaves it with the switched mode and the activePreset that was
\* readable before; no other step changes the file, but for a switch whose
\* write failed after it had emptied the file: that one leaves the file empty
\* or cut short, or with the same merged record.  So after successful
\* switches the file holds the last switched preset and the last switched
\* mode.
C11_StateWriteMerges ==
    [][/\ SavedSwitch("preset") =>
             /\ stateFile' = [t |-> "object",
                              activePreset |-> _cachedConfig'.activePreset,
                              activeMode |-> readState(stateFile).activeMode]
             /\ ~out'.loadFailed => _cachedConfig'.activePreset = out'.res.name
       /\ SavedSwitch("budget") =>
             stateFile' = [t |-> "object",
                           activePreset |-> readState(stateFile).activePreset,
                           activeMode |-> out'.res.name]
       /\ ~(SavedSwitch("preset") \/ SavedSwitch("budget")) =>
             \/ stateFile' = stateFile
             \/ /\ StepOf("preset") \/ StepOf("budget")
                /\ out'.res.kind = "throw" /\ out'.res.error = "write"
                /\ \/ stateFile' = EmptyFile
                   \/ /\ StepOf("preset")
                      /\ stateFile' = [t |-> "object",
                                       activePreset |-> _cachedConfig'.activePreset,
                                       activeMode |-> readState(stateFile).activeMode]
                   \/ /\ StepOf("budget")
                      /\ stateFile' = [t |-> "object",
                                       activePreset |-> readState(stateFile).activePreset,
                                       activeMode |-> _cachedConfig'.activeMode]]_vars

\* C11 witness: a mode switch to "m" was persisted and the file still holds
\* preset "A", which only an earlier switch can have put there.
C11_Witness ==
    /\ out.op = "budget" /\ out.res.kind = "switched" /\ out.res.saved
    /\ stateFile = StateOf(sA, sm)

\* C12: a compileProtocol call that comes right after another, with no
\* command and no edit of tiers.json in between, has the same outcome as the
\* first, and the first left the cache, the dirty flag, the closure's cfg and
\* both files such that the second changes none of them.
C12_CompileTwice ==
    [][(out.op = "compile" /\ ~edited /\ StepOf("compile")) =>
          /\ out'.res = out.res
          /\ cfg' = cfg
          /\ _cachedConfig' = _cachedConfig
          /\ _configDirty' = _configDirty
          /\ doc' = doc
          /\ stateFile' = stateFile]_vars

\* C12 witness: the second of two compileProtocol calls returned a text, and
\* the first of them had come right after tiers.json changed on disk.
C12_Witness ==
    /\ out.op = "compile" /\ out.after = "compile"
    /\ out.res.kind = "text"
    /\ Loadable(doc) /\ _cachedConfig # FreshLoad

\* The last operation was compileProtocol or a report: the tiers report, the
\* preset list or the mode list.
ReportOp ==
    \/ out.op \in {"compile", "tiers"}
    \/ out.op \in {"preset", "budget"} /\ Trim(out.args) = <<>>

\* C13 as stated: for every document that passes the validator, with presets
\* empty or optional fields malformed, compileProtocol and every report return
\* a string; none fails.
C13_BuildersTotal == ReportOp => out.res.kind # "throw"

\* What was switched to is what the configuration c has active.
ActiveIs(c, op, name) ==
    IF op = "preset" THEN c.activePreset = name ELSE c.activeMode = name

\* C14 as stated: when the process is started again right after a confirmed,
\* saved switch, both files kept, the first load gives a configuration whose
\* active preset or mode is the one switched to.
C14_SwitchSurvivesRestart ==
    [][(LastSwitch # "none" /\ StepOf("init"))
          => ActiveIs(cfg', out.op, out.res.name)]_vars

\* C14 amended: the same, provided tiers.json as it is on disk at the restart
\* still defines the preset or mode switched to.
C14_SwitchSurvivesRestartSameDocument ==
    [][(/\ LastSwitch # "none"
        /\ StepOf("init")
        /\ Defines(doc, out.op, out.res.name))
          => /\ ActiveIs(cfg', out.op, out.res.name)
             /\ ActiveIs(_cachedConfig', out.op, out.res.name)
             /\ out.op = "preset" => activeTiers' = getActiveTiers(cfg')]_vars

\* C14 witness: started again right after a saved switch to preset "A", the
\* plugin has "A" active while tiers.json names "a".
C14_Witness ==
    /\ out.op = "init" /\ out.after = "preset"
    /\ cfg.activePreset = sA /\ doc.activePreset = sa
    /\ activeTiers = [t |-> "object", tiers |-> Preset(sA).tiers]

\* C14 witness for a mode: started again right after a saved switch to "m"
C14_WitnessMode ==
    /\ out.op = "init" /\ out.after = "budget"
    /\ cfg.activeMode = sm /\ doc.activeMode = Undefined

\* The agents a result registers, as tier name and model
AgentModels(res) ==
    [i \in 1..Len(res.agents) |-> [name |-> res.agents[i].name,
                                    model |-> res.agents[i].model]]

\* The tiers of the preset that c has active, as tier name and model
TierModels(tiers) ==
    [i \in 1..Len(tiers) |-> [name |-> tiers[i].k, model |-> tiers[i].v.model]]

\* Registration lags: activeTiers is taken from the configuration loaded at
\* process start, no step of the running process changes it, and the config
\* hook registers exactly its tiers.
RegistrationLags ==
    /\ StepOf("init") => activeTiers' = getActiveTiers(cfg')
    /\ ~StepOf("init") => activeTiers' = activeTiers
    /\ (StepOf("config") /\ activeTiers.t = "object") =>
          /\ out'.res.kind = "agents"
          /\ AgentModels(out'.res) = TierModels(activeTiers.tiers)

\* C15 as stated: in one process the registered agents stay those of the
\* preset active at process start whatever is switched, and change only at a
\* restart, while the compileProtocol call after a preset switch names and
\* renders the preset switched to.
C15_RegistrationLagsProtocolFollows ==
    /\ activeTiers = getActiveTiers(cfg)
    /\ [][/\ RegistrationLags
          /\ (LastSwitch = "preset" /\ StepOf("compile"))
                => RendersPreset(out'.res, cfg', out.res.name)]_vars

\* C15 amended: the same, the protocol part provided tiers.json as it is on
\* disk at the compileProtocol call still defines the preset switched to, or
\* cannot be loaded.
C15_RegistrationLagsProtocolFollowsSameDocument ==
    /\ activeTiers = getActiveTiers(cfg)
    /\ [][/\ RegistrationLags
          /\ (/\ LastSwitch = "preset"
              /\ StepOf("compile")
              /\ Loadable(doc) => HasOwn(doc.presets, out.res.name))
                => RendersPreset(out'.res, cfg', out.res.name)]_vars

\* C15 witness: with "A" switched to and persisted, the config hook still
\* registers the models of "a", the preset active when the process started.
C15_Witness ==
    /\ out.op = "config" /\ out.res.kind = "agents"
    /\ cfg.activePreset = sA /\ stateFile.activePreset = sA
    /\ AgentModels(out.res) = TierModels(Preset(sa).tiers)
    /\ TierModels(Preset(sa).tiers) # TierModels(Preset(sA).tiers)

\* The taxonomy entries of c whose list is not empty, as the lines they give
RECURSIVE PatternLines(_)
PatternLines(entries) ==
    IF entries = <<>> THEN <<>>
    ELSE (IF entries[1].v.patterns # <<>>
          THEN << [tier |-> entries[1].k, patterns |-> entries[1].v.patterns] >>
          ELSE <<>>) \o PatternLines(Tail(entries))

\* The taxonomy of c as configured: no entry when the key is absent
ConfiguredPatterns(c) == IF c.taskPatternsT = "object" THEN c.taskPatterns ELSE <<>>

\* C16 as stated: the compiled text has no taxonomy block, neither header nor
\* entry line, when taskPatterns is absent, is an empty mapping or has only
\* empty lists; otherwise the block is the header and one line per tier with
\* a non-empty list, in order.
C16_TaxonomyBlock ==
    (out.op = "compile" /\ out.res.kind = "text") =>
        IF PatternLines(ConfiguredPatterns(cfg)) = <<>>
        THEN out.res.taxonomy = <<>>
        ELSE /\ Head(out.res.taxonomy) = [tier |-> <<>>, patterns |-> <<>>]
             /\ Tail(out.res.taxonomy) = PatternLines(ConfiguredPatterns(cfg))

\* The override file is absent, or cannot be read or parsed.
NoReadableState == stateFile.t \in {"absent", "corrupt"}

\* The step is a preset or budget command asked for a name that resolves in
\* the configuration it worked on.
ResolvingSwitch ==
    \/ /\ StepOf("preset") /\ Trim(out'.args) # <<>>
       /\ TruthyString(resolvePresetName(cfg', Trim(out'.args)))
    \/ /\ StepOf("budget") /\ ToLowerCase(Trim(out'.args)) # <<>>
       /\ HasMode(cfg', ToLowerCase(Trim(out'.args)))

\* The record a first switch writes: the switched key alone.
FirstRecord(op, name) ==
    IF op = "preset" THEN StateOf(name, Undefined) ELSE StateOf(Undefined, name)

\* The name the cache entry c holds under the key a switch assigns.
SwitchedKey(c, op) ==
    IF op = "preset" THEN c.activePreset ELSE c.activeMode

\* C17: while the override file is absent or unreadable, reading the state
\* gives the empty record; every get that reads the files of a loadable
\* document succeeds and gives the document itself, with its own activePreset
\* and no mode taken from the state; and a switch to a name that resolves,
\* made by a handler whose own load succeeded, is confirmed and leaves a
\* well-formed record with the switched key, unless the file system fails the
\* write: the file is then as it was, or empty or cut short, or that same
\* record.  A handler whose own load failed ends in the exception of its save
\* function, or confirms a switch, and what it writes is a well-formed record.
C17_StateReadNeverFails ==
    [][NoReadableState =>
          /\ readState(stateFile) = [activePreset |-> Undefined, activeMode |-> Undefined]
          /\ ((GetStep \/ StepOf("init")) /\ out'.readDisk /\ Loadable(doc)) =>
                /\ ~out'.loadFailed
                /\ cfg' = doc
                /\ cfg'.activePreset = doc.activePreset
                /\ cfg'.activeMode = doc.activeMode
          /\ (ResolvingSwitch /\ ~out'.loadFailed) =>
                \/ /\ out'.res.kind = "switched" /\ out'.res.saved
                   /\ stateFile' = FirstRecord(out'.op, out'.res.name)
                \/ /\ out'.res.kind = "throw" /\ out'.res.error = "write"
                   /\ stateFile' \in {stateFile, EmptyFile,
                                      FirstRecord(out'.op, SwitchedKey(_cachedConfig', out'.op))}
          /\ (ResolvingSwitch /\ out'.loadFailed) =>
                \/ /\ out'.res.kind = "switched" /\ out'.res.saved
                   /\ \E name \in {c.k : c \in Range(docAuthored'.presets)}
                              \cup {c.k : c \in Range(docAuthored'.modes)} :
                          stateFile' = FirstRecord(out'.op, name)
                \/ /\ out'.res.kind = "switched" /\ ~out'.res.saved
                   /\ stateFile' = stateFile
                \/ /\ out'.res.kind = "throw"
                   /\ out'.res.error \in {"load", "write"}
                   /\ stateFile' \in {stateFile, EmptyFile,
                                      FirstRecord(out'.op, SwitchedKey(_cachedConfig', out'.op))}]_vars

\* C17 witness: a switch to preset "A" was confirmed over an absent or
\* unreadable override file, which now holds the record with that key alone.
C17_Witness ==
    /\ out.op = "preset" /\ out.res.kind = "switched" /\ out.res.saved
    /\ out.res.name = sA
    /\ stateFile = StateOf(sA, Undefined)

\* The names of a list's entries, and of those marked active
ListedNames(res) == [i \in 1..Len(res.entries) |-> res.entries[i].name]

MarkedActive(res) == {res.entries[i].name : i \in {j \in 1..Len(res.entries) : res.entries[j].active}}

\* The configured mode compileProtocol uses for c, as a set: empty when no
\* mode is active.
ModeInUse(c) ==
    IF ActiveModeOf(c) # <<>> THEN {c.activeMode} ELSE {}

\* C18 as stated: the budget command with no argument and a mode configured
\* lists every configured mode and marks exactly the active mode of the
\* effective configuration, none when none is active; with no mode configured
\* it returns the no-modes message for any argument and writes nothing.
C18_ModeListing ==
    [][StepOf("budget") =>
          IF ModesOf(cfg') = <<>>
          THEN /\ out'.res.kind = "nomodes"
               /\ stateFile' = stateFile /\ doc' = doc
               /\ ~_configDirty'
          ELSE ToLowerCase(Trim(out'.args)) = <<>> =>
                  /\ out'.res.kind = "list"
                  /\ ListedNames(out'.res) = Keys(cfg'.modes)
                  /\ MarkedActive(out'.res) = ModeInUse(cfg')]_vars

\* The positions of the keys of c.presets that equal s once lowercased
FoldedHits(c, s) ==
    {i \in 1..Len(c.presets) : ToLowerCase(c.presets[i].k) = s}

\* What resolve is specified to return for the request: the request itself
\* when it is a key; else the first key, in document order, whose lowercased
\* form is the trimmed, lowercased request; else not-found.
ResolveAsSpecified(c, requested) ==
    IF requested \in Range(Keys(c.presets)) THEN requested
    ELSE IF ToLowerCase(Trim(requested)) = <<>> THEN Undefined
    ELSE IF FoldedHits(c, ToLowerCase(Trim(requested))) = {} THEN Undefined
    ELSE c.presets[CHOOSE i \in FoldedHits(c, ToLowerCase(Trim(requested))) :
                      \A j \in FoldedHits(c, ToLowerCase(Trim(requested))) : i <= j].k

\* C19 as stated: whatever a preset command was given, resolving it gives what
\* is specified, which is not-found or a key of presets; and the command
\* switches to exactly that key, or answers "Unknown preset" on not-found.
C19_ResolverFallback ==
    out.op = "preset" =>
        /\ resolvePresetName(cfg, out.args) = ResolveAsSpecified(cfg, out.args)
        /\ \/ resolvePresetName(cfg, out.args) = Undefined
           \/ resolvePresetName(cfg, out.args) \in Range(Keys(cfg.presets))
        /\ (Trim(out.args) # <<>> /\ out.res.kind \in {"switched", "unknown"}) =>
              IF ResolveAsSpecified(cfg, Trim(out.args)) = Undefined
              THEN out.res.kind = "unknown"
              ELSE /\ out.res.kind = "switched"
                   /\ out.res.name = ResolveAsSpecified(cfg, Trim(out.args))

\* C20: the fallback block of every compiled text is the rendering of one
\* map: the active preset's own map when there is one with at least one
\* provider, otherwise the global map, and it is absent when neither exists.
\* Nothing of the global map appears when a non-empty own map is chosen, even
\* if no entry of the own map survives the filter.
C20_FallbackMapSelection ==
    (out.op = "compile" /\ out.res.kind = "text") =>
        /\ out.res.fallback = FlatMap(cfg, FallbackMap(cfg))
        /\ FallbackMap(cfg) = <<>> => out.res.fallback = <<>>
        /\ \A i \in 1..Len(out.res.fallback) :
              out.res.fallback[i].provider \in Range(Keys(FallbackMap(cfg)))

\* C20 witness: preset "a" is active and has a map of its own, nothing of
\* which survives the filter; the compiled text has no fallback block although
\* the global map would have given one.
C20_Witness ==
    /\ out.op = "compile" /\ out.res.kind = "text"
    /\ cfg.activePreset = sa
    /\ cfg.fallbackT = "object" /\ cfg.fallback.presetsT = "object"
    /\ HasOwn(cfg.fallback.presets, sa)
    /\ Get(cfg.fallback.presets, sa) # <<>>
    /\ FlatMap(cfg, cfg.fallback.global) # <<>>
    /\ out.res.fallback = <<>>

\* C20 witnesses of the other branches: an own map with no provider gives way
\* to the global map, and a configuration with neither gives no block.
C20_WitnessGlobal ==
    /\ out.op = "compile" /\ out.res.kind = "text"
    /\ cfg.fallbackT = "object" /\ cfg.fallback.presetsT = "object"
    /\ HasOwn(cfg.fallback.presets, cfg.activePreset)
    /\ Get(cfg.fallback.presets, cfg.activePreset) = <<>>
    /\ out.res.fallback # <<>>

C20_WitnessNeither ==
    /\ out.op = "compile" /\ out.res.kind = "text"
    /\ cfg.fallbackT = "object" /\ cfg.fallback.globalT # "object"
    /\ ~HasOwn(cfg.fallback.presets, cfg.activePreset)
    /\ \E i \in 1..Len(cfg.fallback.presets) : cfg.fallback.presets[i].v # <<>>
    /\ out.res.fallback = <<>>

RECURSIVE Concat(_)
Concat(seqs) == IF seqs = <<>> THEN <<>> ELSE seqs[1] \o Concat(Tail(seqs))

\* Every failing check of one tier, in the order model, description, whenToUse
\* (a tier that is a string or a number fails as a whole; an array is held to
\* the three field checks, none of which it passes).
TierDefects(presetName, tierName, tier) ==
    IF tier.t \notin {"object", "array"} THEN << Err("tier must be an object", <<presetName, tierName>>) >>
    ELSE (IF tier.modelT # "string" \/ tier.model = <<>>
          THEN << Err("model must be a non-empty string", <<presetName, tierName>>) >>
          ELSE <<>>)
         \o (IF tier.descriptionT # "string"
             THEN << Err("description must be a string", <<presetName, tierName>>) >>
             ELSE <<>>)
         \o (IF tier.whenToUseT # "array"
             THEN << Err("whenToUse must be an array", <<presetName, tierName>>) >>
             ELSE <<>>)

PresetDefects(presetName, preset) ==
    IF preset.t # "object" THEN << Err("preset must be an object", <<presetName>>) >>
    ELSE Concat([i \in 1..Len(preset.tiers) |->
                    TierDefects(presetName, preset.tiers[i].k, preset.tiers[i].v)])

\* Every failing check of one mode (an array is held to the field checks).
ModeDefects(modeName, mode) ==
    IF mode.t \notin {"object", "array"} THEN << Err("mode must be an object", <<modeName>>) >>
    ELSE (IF mode.defaultTierT # "string"
          THEN << Err("mode defaultTier must be a string", <<modeName>>) >> ELSE <<>>)
         \o (IF mode.descriptionT # "string"
             THEN << Err("mode description must be a string", <<modeName>>) >> ELSE <<>>)

\* Every defect of a decoded document, each check taken on its own, listed in
\* the order root object, activePreset, presets (each preset, each tier),
\* rules, defaultTier, modes, taskPatterns.
Defects(raw) ==
    (IF raw.rootT # "object" THEN << Err("expected a JSON object at root", <<>>) >> ELSE <<>>)
    \o (IF raw.activePresetT # "string" \/ raw.activePreset = <<>>
        THEN << Err("activePreset must be a non-empty string", <<>>) >> ELSE <<>>)
    \o (IF raw.presetsT # "object"
        THEN << Err("presets must be a non-null object", <<>>) >>
        ELSE Concat([i \in 1..Len(raw.presets) |->
                        PresetDefects(raw.presets[i].k, raw.presets[i].v)]))
    \o (IF raw.rulesT # "array"
        THEN << Err("rules must be an array of strings", <<>>) >> ELSE <<>>)
    \o (IF raw.defaultTierT # "string"
        THEN << Err("defaultTier must be a string", <<>>) >> ELSE <<>>)
    \o (IF raw.modesT = "undefined" THEN <<>>
        ELSE IF raw.modesT # "object" THEN << Err("modes must be an object", <<>>) >>
        ELSE Concat([i \in 1..Len(raw.modes) |->
                        ModeDefects(raw.modes[i].k, raw.modes[i].v)]))
    \o (IF raw.taskPatternsT = "undefined" THEN <<>>
        ELSE IF raw.taskPatternsT # "object"
        THEN << Err("taskPatterns must be an object", <<>>) >>
        ELSE Concat([i \in 1..Len(raw.taskPatterns) |->
                IF raw.taskPatterns[i].v.t # "array"
                THEN << Err("taskPatterns entry must be an array of strings",
                            <<raw.taskPatterns[i].k>>) >>
                ELSE <<>>]))

\* C21 as stated: the constructor's load accepts the document exactly when it
\* has no defect, and otherwise throws the error of the earliest defect in the
\* fixed order, whatever other defects the document has.
C21_ValidatorOrdering ==
    out.op = "init" =>
        IF Defects(doc) = <<>> THEN ~out.loadFailed
        ELSE /\ out.loadFailed
             /\ out.res.thrown = Head(Defects(doc))

\* The preset a load of the two files as they are would make active: the
\* persisted name resolved against the document, the document's own
\* activePreset when nothing is persisted or the name does not resolve.
PersistedPreset ==
    IF /\ TruthyString(readState(stateFile).activePreset)
       /\ TruthyString(resolvePresetName(doc, readState(stateFile).activePreset))
    THEN resolvePresetName(doc, readState(stateFile).activePreset)
    ELSE doc.activePreset

\* The persisted mode is a mode of the document.
PersistedModeConfigured ==
    /\ TruthyString(readState(stateFile).activeMode)
    /\ doc.modesT = "object"
    /\ HasOwn(doc.modes, readState(stateFile).activeMode)

\* C22: with the files left to the plugin and every write succeeding, a clean
\* cache agrees with the files: its active preset is the persisted preset
\* resolved against the document (the document's activePreset when none is
\* persisted or it does not resolve), and its active mode is the persisted
\* mode whenever that mode is configured.
C22_CleanCacheCoherent ==
    (Cached(_cachedConfig) /\ ~_configDirty) =>
        /\ _cachedConfig.activePreset = PersistedPreset
        /\ PersistedModeConfigured =>
              _cachedConfig.activeMode = readState(stateFile).activeMode

\* C22 witness: after a confirmed preset switch and a confirmed mode switch
\* the next compileProtocol left a clean cache whose preset is the persisted
\* one, not the document's, and whose mode is the persisted, configured one.
C22_Witness ==
    /\ out.op = "compile" /\ out.after \in {"preset", "budget"}
    /\ Cached(_cachedConfig) /\ ~_configDirty
    /\ PersistedPreset # doc.activePreset
    /\ _cachedConfig.activePreset = PersistedPreset
    /\ PersistedModeConfigured
    /\ _cachedConfig.activeMode = readState(stateFile).activeMode

\* A preset or budget command ended in the exception of a failed write of the
\* override file.
WriteFailed ==
    /\ StepOf("preset") \/ StepOf("budget")
    /\ out'.res.kind = "throw" /\ out'.res.error = "write"

\* C23 as stated: a switch whose write of the override file fails leaves the
\* cached configuration with the active preset and mode the handler started
\* from; the cache is not left clean with a preset or mode the override file
\* does not give.
C23_WriteFailureChangesNothing ==
    [][WriteFailed =>
          /\ _cachedConfig'.activePreset = Refresh.cfg.activePreset
          /\ _cachedConfig'.activeMode = Refresh.cfg.activeMode
          /\ ~_configDirty' =>
                /\ _cachedConfig'.activePreset = FreshLoad'.activePreset
                /\ _cachedConfig'.activeMode = FreshLoad'.activeMode]_vars

\* Both processes have written.
BothWrote == writers # NoWriters /\ \A p \in 1..2 : writers[p].pc = "done"

\* The value the override file holds under the key process p set.
FileValue(p) ==
    IF writers[p].key = "activePreset" THEN readState(stateFile).activePreset
    ELSE readState(stateFile).activeMode

\* C24 as stated: once both processes have written, whatever the order of
\* their reads and writes, the file holds the new preset and the new mode.
C24_NoLostUpdate ==
    BothWrote => \A p \in 1..2 : FileValue(p) = writers[p].value

\* Both processes read before either had opened the file, the file parses,
\* and the first writer's update is lost to the last writer's merge.
C24_LostUpdate ==
    /\ BothWrote
    /\ \A p \in 1..2 : ~writers[p].sawOther /\ ~writers[p].sawEmpty
    /\ \E p \in 1..2 :
          /\ writers[p].last
          /\ FileValue(p) = writers[p].value
          /\ FileValue(Other(p)) # writers[Other(p)].value

\* A process read the file while the other had it open and empty: it wrote
\* its own patch alone, and a value the file held before under the other key
\* is gone although no process ever set that key.
C24_MergedWithEmpty ==
    /\ BothWrote
    /\ \E p \in 1..2 :
          /\ writers[p].last /\ writers[p].sawEmpty
          /\ stateFile.t = "object"
          /\ FileValue(p) = writers[p].value
          /\ FileValue(Other(p)) = Undefined

\* The two writes landed on one another and the file no longer parses: both
\* updates are lost.
C24_Unparseable ==
    /\ BothWrote
    /\ stateFile.t = "corrupt"

\* The second process read after the first had written, and the file holds
\* both new values.
C24_BothKept ==
    /\ BothWrote
    /\ \E p \in 1..2 : writers[p].last /\ writers[p].sawOther
    /\ \A p \in 1..2 : FileValue(p) = writers[p].value

\* The last operation was a command that answered with its confirmation of a
\* switch.
Confirmed(op) == out.op = op /\ out.res.kind = "switched"

\* C25: whenever the preset command answers "Preset switched to X", the
\* override file's activePreset is X and the cache is dirty; whenever the
\* budget command answers "Routing mode switched to X", the file's activeMode
\* is X and the cache is dirty; neither confirmation is given when the save
\* function returned without writing.
C25_ConfirmationImpliesPersistence ==
    /\ Confirmed("preset") =>
          /\ readState(stateFile).activePreset = out.res.name
          /\ _configDirty
          /\ out.res.saved
    /\ Confirmed("budget") =>
          /\ readState(stateFile).activeMode = out.res.name
          /\ _configDirty
          /\ out.res.saved

\* C25 witness: a preset command given "B" confirmed the switch to "b", which
\* the override file did not hold before the handler's refresh read it.
C25_Witness ==
    /\ Confirmed("preset")
    /\ out.args = sB /\ out.res.name = sb
    /\ readState(stateFile).activePreset = sb
    /\ _configDirty

\* C25 witness for the budget command.
C25_WitnessMode ==
    /\ Confirmed("budget")
    /\ out.res.name = sm
    /\ readState(stateFile).activeMode = sm
    /\ _configDirty

\* A step of one of the read-only operations: compileProtocol, the tiers
\* command, the preset or budget command with nothing but white space as its
\* argument, or a command of another name.
ReadOnlyStep ==
    \/ StepOf("compile")
    \/ StepOf("tiers")
    \/ StepOf("other")
    \/ StepOf("preset") /\ Trim(out'.args) = <<>>
    \/ StepOf("budget") /\ Trim(out'.args) = <<>>

\* The active preset and mode of a configuration.
ActiveOf(c) == <<c.activePreset, c.activeMode>>

\* C26: a read-only operation writes neither file, does not turn a clean cache
\* dirty, and assigns no active preset or mode: a clean cache keeps the ones it
\* has, and a dirty one keeps them or takes those the two files give, which
\* the operation leaves as they were.  The closure's cfg is left as it was
\* when no load was made or the load failed, and is the cache entry otherwise.
C26_ReadOnlyCommands ==
    [][ReadOnlyStep =>
          /\ stateFile' = stateFile
          /\ doc' = doc
          /\ _configDirty' => _configDirty
          /\ ~_configDirty => ActiveOf(_cachedConfig') = ActiveOf(_cachedConfig)
          /\ \/ ActiveOf(_cachedConfig') = ActiveOf(_cachedConfig)
             \/ ActiveOf(_cachedConfig') = ActiveOf(FreshLoad)
          /\ IF out'.loadFailed \/ StepOf("other")
             THEN cfg' = cfg
             ELSE ActiveOf(cfg') = ActiveOf(_cachedConfig')]_vars

\* C26 witnesses: a preset command and a budget command given a blank
\* argument listed the names, and a command of another name was handled, each
\* leaving a cache that a switch before it had made dirty or a refresh clean.
C26_Witness ==
    /\ out.op = "preset" /\ out.args = <<" ">> /\ out.res.kind = "list"
    /\ readState(stateFile).activePreset = sb
    /\ ~_configDirty

C26_WitnessBudget ==
    /\ out.op = "budget" /\ out.args = <<" ">> /\ out.res.kind = "list"
    /\ readState(stateFile).activeMode = sm

C26_WitnessOther == out.op = "other" /\ _configDirty

\* A step of an operation that starts with loadConfig().
AccessStep ==
    StepOf("compile") \/ StepOf("tiers") \/ StepOf("preset") \/ StepOf("budget")

\* The configuration c but for its active preset and mode.
Unswitched(c) == [c EXCEPT !.activePreset = Undefined, !.activeMode = Undefined]

\* C27: an access whose refresh fails (tiers.json unreadable or invalid) finds
\* the cache dirty and leaves it dirty with the entry it had; every access
\* that finds the cache dirty reads the files again; and one that finds the
\* document valid again does not fail: compileProtocol and the tiers command
\* then leave the freshly computed configuration in a clean cache and use it.
\* The access a save function makes after the handler's own refresh failed is
\* such a later access: when it finds tiers.json valid again, the cache holds
\* the configuration freshly computed from that document, clean until the
\* switch is saved.
C27_RecoveryAfterFailedRefresh ==
    [][AccessStep =>
          /\ out'.loadFailed =>
                /\ _configDirty /\ ~Loadable(doc)
                /\ Refresh.dirty /\ Refresh.cache = _cachedConfig /\ Refresh.cfg = cfg
                /\ docAuthored' = doc =>
                      /\ _configDirty'
                      /\ _cachedConfig' = _cachedConfig
                      /\ cfg' = cfg
                /\ docAuthored' # doc =>
                      /\ ~GetStep
                      /\ Loadable(docAuthored')
                      /\ Unswitched(_cachedConfig') =
                            Unswitched(loadConfig(_cachedConfig, TRUE, docAuthored',
                                                  stateFile).cache)
                      /\ _configDirty' <=>
                            (out'.res.kind = "switched" /\ out'.res.saved)
          /\ _configDirty => out'.readDisk
          /\ (_configDirty /\ ~Loadable(doc)) => out'.loadFailed
          /\ (_configDirty /\ Loadable(doc)) =>
                /\ ~out'.loadFailed
                /\ GetStep =>
                      /\ _cachedConfig' = FreshLoad
                      /\ cfg' = FreshLoad
                      /\ ~_configDirty']_vars

\* C27 witness: a compileProtocol call whose refresh failed was followed,
\* once tiers.json was valid again, by one that read the files and left the
\* fresh configuration in a clean cache.
C27_Witness ==
    /\ out.op = "compile" /\ out.afterFailure
    /\ ~out.loadFailed /\ out.readDisk
    /\ ~_configDirty
    /\ _cachedConfig = FreshLoad
    /\ out.res.kind = "text"

\* C27 witness of the failure itself: the refresh failed, the cache is dirty
\* and holds an entry that the files no longer give.
C27_WitnessFailed ==
    /\ out.op = "compile" /\ out.loadFailed
    /\ _configDirty /\ Cached(_cachedConfig)
    /\ ~Loadable(doc)

====
